---- MODULE Spec2Model ----
(***************************************************************************)
(* A model of aussiebot's backend (src/back): the message engine with its  *)
(* chat pipeline and configuration install, the background Timer and Log   *)
(* tasks, the lock actor, the egress routing, the websocket gateway and    *)
(* the auth handler.                                                       *)
(***************************************************************************)
EXTENDS Integers, Sequences, FiniteSets, TLC

(***************************************************************************)
(* Bounds of the model.                                                    *)
(***************************************************************************)
\* ChatEvents the engine accepts in one run
MaxChats == 1
\* ConfigDump messages the engine accepts in one run
MaxInstalls == 2
\* RussianRoulette invocations accepted in one run
MaxJoins == 2
\* times the running background tasks have woken, all together
MaxWakes == 1
\* auth messages the auth handler gets in one run
MaxCalls == 5
\* auth messages the gateway hands to the auth handler in one run
MaxAuthMsgs == 3
\* the ceiling of the auth rate limit this model is configured with (the
\* environment sets it; 10 when it does not)
MAX_AUTH_RATELIMIT_COUNT == 3
\* codes the auth handler generates in one run
MaxCodes == 2
\* frames the read pumps forward to the ingress queue in one run
MaxForward == 2
\* calls each handler task makes of the command rate limiters in one run
MaxRlCalls == 1
\* responses the handlers of the routing runs send
MaxEmits == 2
\* Give operations each database task runs
MaxGives == 2
\* chats of one user the Levenshtein filter is run on
MaxLevChats == 3
MaxRuns == 4
MaxRedeems == 2
\* the capacity the channels of the egress are scaled down to where they
\* are filled
StallCap == 2
\* seconds the cache's clock runs for
MaxTime == 24
\* increments of one counter while its key lives
MaxIncrs == 3

(***************************************************************************)
(* Permissions (bitflags, compared by their bits) and ModAction (derived   *)
(* PartialOrd: by variant, then by the Timeout's seconds).                 *)
(***************************************************************************)
NONE == 1
MEMBER == 2
MOD == 4
ADMIN == 8
OWNER == 16

MA_None == <<0, 0>>
MA_Warn == <<1, 0>>
MA_Remove == <<2, 0>>
MA_Timeout(secs) == <<3, secs>>
MA_Kick == <<4, 0>>
MA_Ban == <<5, 0>>

\* a >= b: what the fold of filter_chat would compare with if it let a
\* later filter of equal severity replace an earlier one
ActionGe(a, b) == a[1] > b[1] \/ (a[1] = b[1] /\ a[2] >= b[2])

\* a > b in the derived ordering of enum ModAction
ActionGt(a, b) == a[1] > b[1] \/ (a[1] = b[1] /\ a[2] > b[2])

(***************************************************************************)
(* Rules.  A Filter, RegexFilter or Levenshtein rule carries enabled,      *)
(* apply_to and action; a command carries its prefix and autocorrect flag; *)
(* a Timer carries enabled, interval, msg and msg_count.                   *)
(***************************************************************************)
FilterRule(k, n, en, ap, act) ==
    [kind |-> k, name |-> n, enabled |-> en, apply_to |-> ap, action |-> act]

CmdRule(k, n, p, ac) ==
    [kind |-> k, name |-> n, prefix |-> p, autocorrect |-> ac]

TimerRule(n, en, iv, m, mc) ==
    [kind |-> "Timer", name |-> n, enabled |-> en, interval |-> iv, msg |-> m,
     msg_count |-> mc]

\* The configurations an operator installs in this model (a CommandConfig
\* is three rule sequences).
ConfigA ==
    [filters  |-> << FilterRule("Filter", "f1", TRUE, OWNER, MA_Warn),
                     FilterRule("RegexFilter", "f2", TRUE, OWNER, MA_Timeout(60)),
                     FilterRule("Levenshtein", "f3", TRUE, NONE, MA_Timeout(60)) >>,
     commands |-> << CmdRule("Quote", "c1", "!a", TRUE),
                     CmdRule("Log", "log1", "", FALSE) >>,
     timers   |-> << TimerRule("t1", TRUE, 60, "hello", 1) >>]

ConfigB ==
    [filters  |-> << FilterRule("Filter", "g1", TRUE, MEMBER, MA_None),
                     FilterRule("Filter", "g2", FALSE, OWNER, MA_Ban),
                     FilterRule("Levenshtein", "g3", TRUE, MOD, MA_Timeout(300)) >>,
     commands |-> << CmdRule("Quote", "d1", "!b", TRUE),
                     CmdRule("Quote", "d2", "!b", TRUE) >>,
     timers   |-> << TimerRule("u1", TRUE, 60, "again", 0),
                     TimerRule("u2", FALSE, 60, "off", 1) >>]

Configs == {ConfigA, ConfigB}

\* A configuration of three prefixed commands, two of them of one prefix
ConfigC ==
    [filters  |-> << FilterRule("Filter", "h1", TRUE, OWNER, MA_Warn) >>,
     commands |-> << CmdRule("Quote", "e1", "!c", TRUE),
                     CmdRule("Quote", "e2", "!d", TRUE),
                     CmdRule("Quote", "e3", "!c", TRUE) >>,
     timers   |-> << >>]

\* A configuration with a RussianRoulette command
ConfigD ==
    [filters  |-> << FilterRule("Filter", "k1", TRUE, OWNER, MA_Warn) >>,
     commands |-> << CmdRule("RussianRoulette", "rr1", "!rr", TRUE) >>,
     timers   |-> << TimerRule("t1", TRUE, 60, "hello", 1) >>]

\* A configuration of one Timer that waits for two chats
ConfigT ==
    [filters  |-> << >>,
     commands |-> << >>,
     timers   |-> << TimerRule("t1", TRUE, 60, "hello", 2) >>]

\* The configurations a chat is evaluated under
ChatConfigs == Configs \cup {ConfigC}
\* ... and with the one whose command can panic
PanicConfigs == ChatConfigs \cup {ConfigD}

TimerNames == {"t1", "u1", "u2"}

\* The permissions of the users that chat in this model
UserPerms == {NONE, MEMBER, MOD, OWNER}

\* Location: where a message came from and where a response goes
Pubsub == [loc |-> "Pubsub"]
Websocket(addr) == [loc |-> "Websocket", addr |-> addr]
WebsocketsAll == [loc |-> "Websockets"]
\* Websockets(Some(addrs))
WebsocketsSome(addrs) == [loc |-> "WebsocketsSome", addrs |-> addrs]
Broadcast == [loc |-> "Broadcast"]
Origins == {Pubsub, Websocket("p1")}

CONFIG_FILE_LOCK == "config"

(***************************************************************************)
(* RunRes, the result of one rule's chat handler.                          *)
(***************************************************************************)
R_Ok == [t |-> "Ok"]
R_Noop == [t |-> "Noop"]
R_Disabled == [t |-> "Disabled"]
R_Err == [t |-> "Err"]
R_Filtered(a) == [t |-> "Filtered", action |-> a]
R_Autocorrect(p) == [t |-> "Autocorrect", prefix |-> p]
\* ... and a handler that returns nothing because it panics
R_Panic == [t |-> "Panic"]

\* What a filter's text tests can come to for one chat: tripped, not
\* tripped, or (Levenshtein only, whose lock and cache calls can fail) an error.
FilterOutcomes(f) == IF f.kind = "Levenshtein" THEN {"trip", "pass", "err"}
                     ELSE {"trip", "pass"}

\* Filter::chat, RegexFilter::chat, Levenshtein::chat: can_run, then run
FilterChat(f, perms, outcome) ==
    IF ~f.enabled THEN R_Disabled
    ELSE IF perms > f.apply_to THEN R_Disabled
    ELSE IF outcome = "err" THEN R_Err
    ELSE IF outcome = "trip" THEN R_Filtered(f.action)
    ELSE R_Ok

\* The results a command's chat handler can return.  RussianRoulette::run
\* panics (unreachable!) when HSETNX answers false: the user is already a
\* member of the round.
CmdResults(c) ==
    IF c.kind = "Log" THEN {R_Noop, R_Disabled}
    ELSE {R_Ok, R_Noop, R_Disabled, R_Err}
         \cup (IF c.autocorrect THEN {R_Autocorrect(c.prefix)} ELSE {})
         \cup (IF c.kind = "RussianRoulette" THEN {R_Panic} ELSE {})

\* Timer::chat: counts the chat unless disabled or msg_count = 0
TimerCounts(t) == t.enabled /\ t.msg_count # 0
TimerChat(t) == IF TimerCounts(t) THEN R_Noop ELSE R_Disabled

\* The fold of Server::filter_chat: (index, most severe action so far)
RECURSIVE FoldSevere(_, _, _)
FoldSevere(filtered, i, acc) ==
    IF i > Len(filtered) THEN acc
    ELSE LET res == filtered[i]
             nxt == IF res.t = "Filtered"
                       /\ (~acc.some \/ ActionGt(res.action, acc.action))
                    THEN [idx |-> i, some |-> TRUE, action |-> res.action]
                    ELSE acc
         IN FoldSevere(filtered, i + 1, nxt)

most_severe_action(filtered) ==
    FoldSevere(filtered, 1, [idx |-> 0, some |-> FALSE, action |-> MA_None])

\* a fold that puts each prefix in front of those collected so far
RECURSIVE AutoFoldFront(_, _, _)
AutoFoldFront(res, i, sugg) ==
    IF i > Len(res) THEN [brk |-> FALSE, sugg |-> sugg]
    ELSE IF res[i].t = "Ok" THEN [brk |-> TRUE, sugg |-> <<>>]
    ELSE IF res[i].t = "Autocorrect"
         THEN AutoFoldFront(res, i + 1, <<res[i].prefix>> \o sugg)
         ELSE AutoFoldFront(res, i + 1, sugg)

\* The try_fold of Server::autocorrect: stop at the first Ok, else collect
\* the Autocorrect prefixes
RECURSIVE AutoFold(_, _, _)
AutoFold(res, i, sugg) ==
    IF i > Len(res) THEN [brk |-> FALSE, sugg |-> sugg]
    ELSE IF res[i].t = "Ok" THEN [brk |-> TRUE, sugg |-> <<>>]
    ELSE IF res[i].t = "Autocorrect"
         THEN AutoFold(res, i + 1, Append(sugg, res[i].prefix))
         ELSE AutoFold(res, i + 1, sugg)

\* a fold that stops only at an Ok in the first place
autocorrect_first_ok(res) ==
    IF res # <<>> /\ res[1].t = "Ok" THEN [brk |-> TRUE, sugg |-> <<>>]
    ELSE AutoFold(SelectSeq(res, LAMBDA r : r.t # "Ok"), 1, <<>>)

autocorrect(res) == AutoFold(res, 1, <<>>)

(***************************************************************************)
(* Payloads and Response::send.                                            *)
(***************************************************************************)
P_ModAction(perms, action, reason) ==
    [t |-> "ModAction", perms |-> perms, action |-> action, reason |-> reason]
P_Chat(perms) == [t |-> "Chat", perms |-> perms]
P_Autocorrect(perms, sugg) == [t |-> "Autocorrect", perms |-> perms, sugg |-> sugg]
\* (`of` numbers the ConfigDump it answers; the wire payload has no fields)
P_ConfigSaved(id) == [t |-> "ConfigSaved", of |-> id]
P_ConfigChanged(id) == [t |-> "ConfigChanged", of |-> id]
P_ConfigDump(c, f, t) == [t |-> "ConfigDump", commands |-> c, filters |-> f, timers |-> t]
P_Message(m) == [t |-> "Message", msg |-> m]
P_Ping(u, c) == [t |-> "Ping", pingee |-> u, msg |-> c]

Resp(loc, payload) == [loc |-> loc, payload |-> payload]

\* a queue that hands out the newest response first
SendFront(q, loc, payload) == <<Resp(loc, payload)>> \o q

\* Response::send: the response joins the queue of msg_out_tx
Send(q, loc, payload) == Append(q, Resp(loc, payload))

VARIABLES
    commands,      \* Server.commands: the installed command rules
    filters,       \* Server.filters
    timers,        \* Server.timers
    cancel_tasks,  \* Server.cancel_tasks: the live watch channel (0: None)
    chan_fired,    \* the watch channels whose sender has sent and been dropped
    tasks,         \* the spawned Timer and Log tasks
    counts,        \* cache: the Timers' chat counters
    locks,         \* the keys held through the lock actor (redis SET NX EX)
    msg_out,       \* everything sent on msg_out_tx, in order
    disk,          \* the three configuration files
    inst,          \* the ConfigDump handlers
    ctask,         \* the ChatEvent handler
    dtask,         \* the DumpConfig handler
    nchats,        \* ChatEvents accepted
    ninstalls,     \* ConfigDumps accepted
    rr_members,    \* cache: the hash of the running game's heisters
    rtask,         \* the task of RussianRoulette::handle_end
    njoins,        \* RussianRoulette invocations accepted
    conn,          \* gateway: the connections (the task of Server::new_conn)
    clients,       \* gateway: the session map (its keys)
    msg_in,        \* everything sent on msg_in_tx, in order
    rl,            \* cache: the rate-limit counter of each peer IP (0: no key)
    code,          \* cache: the login code stored for each user ("": no key)
    last,          \* the last call of auth::Handle::handle
    wrong,         \* incorrect Logins of each IP since its counter's key was made
    nauth,         \* auth messages handled
    tx_next,       \* msg_tx_loop: the place in msg_out of the next response it takes
    pub_q,         \* the queue of pub_in_tx
    pub_flying,    \* the publish tasks pub_task has spawned and that have not published
    published,     \* what was published on the redis channel, in order
    ws_q,          \* the queue of ws_in_tx
    delivered,     \* what reached each session's outbound channel, in order
    rcall,         \* the calls of the command rate limiters
    wpump,         \* gateway: the write pump of each session
    stream_id,     \* cache: the stream id stored for the platform ("": no key)
    stask,         \* the handlers of StreamEvent::Started
    swaps,         \* the ids the SetGet calls stored, in the order redis ran them
    points,        \* database: the balance of each user's row
    committed,     \* the net change of each balance by the committed transactions
    gtask,         \* the Give transactions (db::give::op)
    wagers,        \* RussianRoulette: the wagers debited, and what became of each
    ld,            \* the last construction of rules from a list of dumps
    otp,           \* cache: the user stored under each one-time code ("": no key)
    otask,         \* the calls of Link::handle_gen_otp
    hs,            \* the handler futures of one ChatEvent, as join_all polls them
    now,           \* the cache's clock, in seconds
    ctr,           \* cache: the counters Cache::Increment keeps, with their expiry
    lev_lock,      \* Levenshtein: whether the user's lock key is set
    lev_prev,      \* cache: the user's previous message ("": no key)
    lev_count,     \* cache: the user's count of consecutive trips
    vtask,         \* the calls of Levenshtein::run for the user's chats
    nlev,          \* the user's chats the filter was run on
    lev_streak,    \* the similar messages in a row, in the order of the swaps
    rd,            \* RussianRoulette: the keys of a game and the resolvers spawned
    rx             \* the calls of Link::handle_recv_otp and the links they made

engineVars == <<commands, filters, timers, cancel_tasks, chan_fired, tasks, counts,
                locks, msg_out, disk, inst, ctask, dtask, nchats, ninstalls>>

rouletteVars == <<rr_members, rtask, njoins>>

\* the variables of the gateway, the auth handler and the egress
gatewayVars == <<conn, clients, msg_in>>
authVars == <<rl, code, last, wrong, nauth>>
egressVars == <<tx_next, pub_q, pub_flying, published, ws_q, delivered>>
\* the variables of the command handlers' helpers
rlVars == <<rcall>>
pumpVars == <<wpump>>
streamVars == <<stream_id, stask, swaps>>
dbVars == <<points, committed, gtask, wagers>>
\* the variables of the rule loader
loadVars == <<ld>>
\* the variables of the one-time codes
otpVars == <<otp, otask>>
\* the variables of the handlers' futures
hsVars == <<hs>>
\* the variables of the cache's counters
incrVars == <<now, ctr>>
\* the variables of the Levenshtein filter
levVars == <<lev_lock, lev_prev, lev_count, vtask, nlev, lev_streak>>
rdVars == <<rd>>
rxVars == <<rx>>
lateVars == <<hsVars, incrVars, levVars, rdVars, rxVars>>
moreVars == <<loadVars, otpVars, lateVars>>
cmdVars == <<rlVars, pumpVars, streamVars, dbVars, moreVars>>
ioVars == <<gatewayVars, authVars, egressVars, cmdVars>>

\* what the engine's handlers never touch
sideVars == <<rouletteVars, ioVars>>

vars == <<engineVars, sideVars>>

(***************************************************************************)
(* Background tasks (Timer::init, Log::init) and the install of a          *)
(* configuration.                                                          *)
(***************************************************************************)
\* Timer::init spawns a task unless the Timer is disabled or has no
\* interval or message
TimerSpawns(t) == t.enabled /\ t.interval # 0 /\ t.msg # ""

\* A task as spawned: asleep, holding a clone of the watch receiver `chan`.
\* n counts its wakes; at_fire is where the task was when its channel fired
\* ("": not fired); late_reset, late_send and late_sweep count what it did
\* after that.
NewTask(kind, name, chan, trigger, msg) ==
    [kind |-> kind, name |-> name, chan |-> chan, pc |-> "sleep",
     trigger |-> trigger, msg |-> msg, n |-> 0, at_fire |-> "",
     late_reset |-> 0, late_send |-> 0, late_sweep |-> 0]

RECURSIVE SpawnTimers(_, _, _)
SpawnTimers(ts, i, chan) ==
    IF i > Len(ts) THEN <<>>
    ELSE (IF TimerSpawns(ts[i])
          THEN <<NewTask("Timer", ts[i].name, chan, ts[i].msg_count, ts[i].msg)>>
          ELSE <<>>) \o SpawnTimers(ts, i + 1, chan)

RECURSIVE SpawnLogs(_, _, _)
SpawnLogs(cs, i, chan) ==
    IF i > Len(cs) THEN <<>>
    ELSE (IF cs[i].kind = "Log"
          THEN <<NewTask("Log", cs[i].name, chan, 0, "")>>
          ELSE <<>>) \o SpawnLogs(cs, i + 1, chan)

\* Server::handle_cmds_with_tasks: fire and drop the old cancel channel,
\* make a new one, spawn the Timer and Log tasks on it, keep its sender
FiredAfterTake == chan_fired \cup (IF cancel_tasks # 0 THEN {cancel_tasks} ELSE {})

\* the tasks, those that hold the channel now fired noting where they are
NoteFire(ts) ==
    [i \in 1..Len(ts) |->
       IF ts[i].chan = cancel_tasks
       THEN [ts[i] EXCEPT !.at_fire = ts[i].pc] ELSE ts[i]]

handle_cmds_with_tasks(cmds, tmrs) ==
    LET newc == Cardinality(FiredAfterTake) + 1
    IN /\ chan_fired' = FiredAfterTake
       /\ tasks' = NoteFire(tasks) \o SpawnTimers(tmrs, 1, newc) \o SpawnLogs(cmds, 1, newc)
       /\ cancel_tasks' = newc

\* a receiver that never sees its channel change
HasChangedNever(chan) == FALSE

\* cancel_chan.has_changed(): Ok(true) once the sender has sent, Err once
\* it is dropped
HasChanged(chan) == chan \in chan_fired

Late(t) == IF t.chan \in chan_fired THEN 1 ELSE 0

\* the tasks without the i-th, which returned
Returned(ts, i) == [k \in 1..(Len(ts) - 1) |-> IF k < i THEN ts[k] ELSE ts[k + 1]]

RECURSIVE Wakes(_, _)
Wakes(ts, i) == IF i > Len(ts) THEN 0 ELSE ts[i].n + Wakes(ts, i + 1)

\* a task's sleep ends; it returns if has_changed() is not Ok(false)
TaskWake(i) ==
    /\ tasks[i].pc = "sleep"
    /\ HasChanged(tasks[i].chan) \/ Wakes(tasks, 1) < MaxWakes
    /\ tasks' = IF HasChanged(tasks[i].chan) THEN Returned(tasks, i)
                ELSE [tasks EXCEPT ![i].n = @ + 1, ![i].pc = "work"]
    /\ UNCHANGED <<commands, filters, timers, cancel_tasks, chan_fired, counts, locks,
                   msg_out, disk, inst, ctask, dtask, nchats, ninstalls, sideVars>>

\* a Timer that takes every count for enough
BelowTriggerNever(count, trigger) == FALSE

\* if count < trigger_count { continue; }
BelowTrigger(count, trigger) == count < trigger

\* Timer: Cache::SetGet(count_key, "0"), and back to sleep if fewer chats
\* than msg_count were counted
TimerSetGet(i) ==
    /\ tasks[i].kind = "Timer"
    /\ tasks[i].pc = "work"
    /\ tasks[i].trigger > 0
    /\ counts' = [counts EXCEPT ![tasks[i].name] = 0]
    /\ tasks' = [tasks EXCEPT ![i].pc = IF BelowTrigger(counts[tasks[i].name],
                                                        tasks[i].trigger)
                                        THEN "sleep" ELSE "send",
                              ![i].late_reset = @ + Late(tasks[i])]
    /\ UNCHANGED <<commands, filters, timers, cancel_tasks, chan_fired, locks,
                   msg_out, disk, inst, ctask, dtask, nchats, ninstalls, sideVars>>

\* Timer: the Message goes to Pubsub
TimerSend(i) ==
    /\ tasks[i].kind = "Timer"
    /\ tasks[i].pc = "send" \/ (tasks[i].pc = "work" /\ tasks[i].trigger = 0)
    /\ msg_out' = Send(msg_out, Pubsub, P_Message(tasks[i].msg))
    /\ tasks' = [tasks EXCEPT ![i].pc = "sleep", ![i].late_send = @ + Late(tasks[i])]
    /\ UNCHANGED <<commands, filters, timers, cancel_tasks, chan_fired, counts, locks,
                   disk, inst, ctask, dtask, nchats, ninstalls, sideVars>>

\* Log: the sweep (Log::cleanup on every platform)
LogSweep(i) ==
    /\ tasks[i].kind = "Log"
    /\ tasks[i].pc = "work"
    /\ tasks' = [tasks EXCEPT ![i].pc = "sleep", ![i].late_sweep = @ + Late(tasks[i])]
    /\ UNCHANGED <<commands, filters, timers, cancel_tasks, chan_fired, counts, locks,
                   msg_out, disk, inst, ctask, dtask, nchats, ninstalls, sideVars>>

(***************************************************************************)
(* The lock actor: SET key 1 NX EX ttl, and DEL key.                       *)
(***************************************************************************)
\* Lock::Lock: true iff the key was absent
LockAcquired(held, key) == key \notin held
LockAfter(held, key) == held \cup {key}
UnlockNothing(held, key) == held

\* Lock::Unlock: DEL, whoever set the key
UnlockAfter(held, key) == held \ {key}

(***************************************************************************)
(* The ConfigDump arm of Server::msg, one handler task per message.        *)
(***************************************************************************)
Installers == {"h1", "h2"}

\* id numbers the ConfigDumps as they arrive; overrun: the key expired
\* while the handler worked under it
IdleInst == [pc |-> "idle", id |-> 0, cfg |-> ConfigA, loc |-> Pubsub, overrun |-> FALSE]

\* a ConfigDump(config) arrives from `loc` and gets its task
ConfigDumpRecv(h, cfg, loc) ==
    /\ inst[h].pc = "idle"
    /\ ninstalls < MaxInstalls
    /\ ninstalls' = ninstalls + 1
    /\ inst' = [inst EXCEPT ![h] = [pc |-> "lock", id |-> ninstalls + 1, cfg |-> cfg,
                                    loc |-> loc, overrun |-> FALSE]]
    /\ UNCHANGED <<commands, filters, timers, cancel_tasks, chan_fired, tasks, counts,
                   locks, msg_out, disk, ctask, dtask, nchats,
                   sideVars>>

\* self.lock.lock(CONFIG_FILE_LOCK, 5): not acquired, the message is dropped
ConfigDumpLock(h) ==
    /\ inst[h].pc = "lock"
    /\ IF LockAcquired(locks, CONFIG_FILE_LOCK)
       THEN /\ locks' = LockAfter(locks, CONFIG_FILE_LOCK)
            /\ inst' = [inst EXCEPT ![h].pc = "tasks"]
       ELSE /\ locks' = locks
            /\ inst' = [inst EXCEPT ![h].pc = "idle"]
    /\ UNCHANGED <<commands, filters, timers, cancel_tasks, chan_fired, tasks, counts,
                   msg_out, disk, ctask, dtask, nchats, ninstalls,
                   sideVars>>

ConfigDumpTasks(h) ==
    /\ inst[h].pc = "tasks"
    /\ handle_cmds_with_tasks(inst[h].cfg.commands, inst[h].cfg.timers)
    /\ inst' = [inst EXCEPT ![h].pc = "w_commands"]
    /\ UNCHANGED <<commands, filters, timers, counts, locks, msg_out, disk, ctask,
                   dtask, nchats, ninstalls,
                   sideVars>>

\* *self.commands.write() = config.commands.clone()
ConfigDumpWriteCommands(h) ==
    /\ inst[h].pc = "w_commands"
    /\ commands' = inst[h].cfg.commands
    /\ inst' = [inst EXCEPT ![h].pc = "w_filters"]
    /\ UNCHANGED <<filters, timers, cancel_tasks, chan_fired, tasks, counts, locks,
                   msg_out, disk, ctask, dtask, nchats, ninstalls,
                   sideVars>>

\* *self.filters.write() = config.filters.clone()
ConfigDumpWriteFilters(h) ==
    /\ inst[h].pc = "w_filters"
    /\ filters' = inst[h].cfg.filters
    /\ inst' = [inst EXCEPT ![h].pc = "w_timers"]
    /\ UNCHANGED <<commands, timers, cancel_tasks, chan_fired, tasks, counts, locks,
                   msg_out, disk, ctask, dtask, nchats, ninstalls,
                   sideVars>>

\* *self.timers.write() = config.timers.clone()
ConfigDumpWriteTimers(h) ==
    /\ inst[h].pc = "w_timers"
    /\ timers' = inst[h].cfg.timers
    /\ inst' = [inst EXCEPT ![h].pc = "save"]
    /\ UNCHANGED <<commands, filters, cancel_tasks, chan_fired, tasks, counts, locks,
                   msg_out, disk, ctask, dtask, nchats, ninstalls,
                   sideVars>>

\* join3(save_cmds, save_filters, save_timers): each file write can fail,
\* and the results are dropped
ConfigDumpSave(h, written) ==
    /\ inst[h].pc = "save"
    /\ disk' = [f \in {"commands", "filters", "timers"} |->
                  IF f \in written THEN inst[h].cfg[f] ELSE disk[f]]
    /\ inst' = [inst EXCEPT ![h].pc = "saved"]
    /\ UNCHANGED <<commands, filters, timers, cancel_tasks, chan_fired, tasks, counts,
                   locks, msg_out, ctask, dtask, nchats, ninstalls,
                   sideVars>>

\* ConfigSaved to the location the ConfigDump came from
ConfigDumpSendSaved(h) ==
    /\ inst[h].pc = "saved"
    /\ msg_out' = Send(msg_out, inst[h].loc, P_ConfigSaved(inst[h].id))
    /\ inst' = [inst EXCEPT ![h].pc = "changed"]
    /\ UNCHANGED <<commands, filters, timers, cancel_tasks, chan_fired, tasks, counts,
                   locks, disk, ctask, dtask, nchats, ninstalls,
                   sideVars>>

\* ConfigChanged to Broadcast
ConfigDumpSendChanged(h) ==
    /\ inst[h].pc = "changed"
    /\ msg_out' = Send(msg_out, Broadcast, P_ConfigChanged(inst[h].id))
    /\ inst' = [inst EXCEPT ![h].pc = "unlock"]
    /\ UNCHANGED <<commands, filters, timers, cancel_tasks, chan_fired, tasks, counts,
                   locks, disk, ctask, dtask, nchats, ninstalls,
                   sideVars>>

\* self.lock.unlock(CONFIG_FILE_LOCK)
ConfigDumpUnlock(h) ==
    /\ inst[h].pc = "unlock"
    /\ locks' = UnlockAfter(locks, CONFIG_FILE_LOCK)
    /\ inst' = [inst EXCEPT ![h].pc = "idle"]
    /\ UNCHANGED <<commands, filters, timers, cancel_tasks, chan_fired, tasks, counts,
                   msg_out, disk, ctask, dtask, nchats, ninstalls,
                   sideVars>>

\* the handlers between acquiring the lock and releasing it
InCritical(h) == inst[h].pc \in {"tasks", "w_commands", "w_filters", "w_timers", "save",
                                 "saved", "changed", "unlock"}

\* The key expires by its TTL (EX 5) while a handler still works under it
ConfigLockExpire ==
    /\ CONFIG_FILE_LOCK \in locks
    /\ locks' = locks \ {CONFIG_FILE_LOCK}
    /\ inst' = [h \in Installers |->
                  IF InCritical(h) THEN [inst[h] EXCEPT !.overrun = TRUE] ELSE inst[h]]
    /\ UNCHANGED <<commands, filters, timers, cancel_tasks, chan_fired, tasks, counts,
                   msg_out, disk, ctask, dtask, nchats, ninstalls,
                   sideVars>>

(***************************************************************************)
(* Server::chat, one task per ChatEvent.                                   *)
(***************************************************************************)
IdleChat == [pc |-> "idle", perms |-> NONE, loc |-> Pubsub, filters |-> <<>>,
             filtered |-> <<>>, tripped |-> FALSE, commands |-> <<>>, timers |-> <<>>,
             res |-> <<>>, sent |-> <<>>, logged |-> <<>>]

\* A ChatEvent of a user with `perms` arrives from `loc`; filter_chat
\* takes its snapshot of self.filters
ChatRecv(perms, loc) ==
    /\ ctask.pc \in {"idle", "done", "panicked"}
    /\ nchats < MaxChats
    /\ nchats' = nchats + 1
    /\ ctask' = [IdleChat EXCEPT !.pc = "run_filters", !.perms = perms, !.loc = loc,
                                 !.filters = filters]
    /\ UNCHANGED <<commands, filters, timers, cancel_tasks, chan_fired, tasks, counts,
                   locks, msg_out, disk, inst, dtask, ninstalls,
                   sideVars>>

\* join_all(filters.iter().map(|cmd| cmd.chat(ctx, chat)))
ChatRunFilters(oc) ==
    /\ ctask.pc = "run_filters"
    /\ DOMAIN oc = 1..Len(ctask.filters)
    /\ \A i \in 1..Len(ctask.filters) : oc[i] \in FilterOutcomes(ctask.filters[i])
    /\ ctask' = [ctask EXCEPT
                   !.pc = "arbitrate",
                   !.filtered = [i \in 1..Len(ctask.filters) |->
                                   FilterChat(ctask.filters[i], ctask.perms, oc[i])]]
    /\ UNCHANGED <<commands, filters, timers, cancel_tasks, chan_fired, tasks, counts,
                   locks, msg_out, disk, inst, dtask, nchats, ninstalls,
                   sideVars>>

\* A pipeline that sent the ModAction whatever the user's permissions
ModActionAlways(perms) == TRUE

\* Whether Server::chat sends the ModAction of a tripped filter
ModActionAllowed(perms) == perms < MOD

\* Whether filter_chat appends a mod-action row (Log::mod_action)
ModActionLogged(action) == ActionGt(action, MA_None)

\* a pipeline that lets the chats of Mods and above through to the handlers
AfterTripRuns(perms) == IF perms < MOD THEN "fanout" ELSE "read_rules"

\* Where Server::chat goes on after a filter fired: the else branch (timers
\* and commands) is skipped whatever the permission
AfterTrip(perms) == "fanout"

\* The rest of filter_chat (the fold, the mod-action row) and the branch of
\* Server::chat on its result
ChatArbitrate ==
    /\ ctask.pc = "arbitrate"
    /\ LET m == most_severe_action(ctask.filtered)
           reason == ctask.filters[m.idx].name
           logged == IF m.some /\ ModActionLogged(m.action)
                     THEN <<[perms |-> ctask.perms, action |-> m.action,
                             reason |-> reason]>>
                     ELSE <<>>
       IN IF m.some
          THEN IF ModActionAllowed(ctask.perms)
               THEN LET pl == P_ModAction(ctask.perms, m.action, reason)
                    IN /\ msg_out' = Send(msg_out, Broadcast, pl)
                       /\ ctask' = [ctask EXCEPT !.pc = AfterTrip(ctask.perms), !.tripped = TRUE,
                                                 !.logged = logged,
                                                 !.sent = Append(@, Resp(Broadcast, pl))]
               ELSE /\ msg_out' = msg_out
                    /\ ctask' = [ctask EXCEPT !.pc = AfterTrip(ctask.perms), !.tripped = TRUE,
                                              !.logged = logged]
          ELSE /\ msg_out' = msg_out
               /\ ctask' = [ctask EXCEPT !.pc = "read_rules"]
    /\ UNCHANGED <<commands, filters, timers, cancel_tasks, chan_fired, tasks, counts,
                   locks, disk, inst, dtask, nchats, ninstalls,
                   sideVars>>

\* let timers = self.timers.read().clone(); let commands = self.commands.read().clone()
ChatReadRules ==
    /\ ctask.pc = "read_rules"
    /\ ctask' = [ctask EXCEPT !.pc = "run_cmds", !.timers = timers, !.commands = commands]
    /\ UNCHANGED <<commands, filters, timers, cancel_tasks, chan_fired, tasks, counts,
                   locks, msg_out, disk, inst, dtask, nchats, ninstalls,
                   sideVars>>

\* The chat counters after every counting Timer of `ts` has run
\* Cache::Increment(count_key, 1, 0)
CountsAfterChat(ts) ==
    [n \in TimerNames |->
       counts[n] + Cardinality({i \in 1..Len(ts) : ts[i].name = n /\ TimerCounts(ts[i])})]

\* join_all over commands.iter().chain(timers.iter()), then self.autocorrect.
\* A handler that panics unwinds through join_all and Server::chat: the
\* task of this message ends there, with the Timers' increments made or not.
ChatRunCmds(rc) ==
    /\ ctask.pc = "run_cmds"
    /\ LET cs == ctask.commands
           ts == ctask.timers
       IN   /\ DOMAIN rc = 1..Len(cs)
            /\ \A i \in 1..Len(cs) : rc[i] \in CmdResults(cs[i])
            /\ IF \E i \in 1..Len(cs) : rc[i] = R_Panic
               THEN /\ msg_out' = msg_out
                    /\ ctask' = [ctask EXCEPT !.pc = "panicked"]
                    /\ counts' \in {counts, CountsAfterChat(ts)}
               ELSE /\ LET res == rc \o [i \in 1..Len(ts) |-> TimerChat(ts[i])]
                           ac == autocorrect(res)
                       IN IF ~ac.brk /\ ac.sugg # <<>>
                          THEN LET pl == P_Autocorrect(ctask.perms, ac.sugg)
                               IN /\ msg_out' = Send(msg_out, ctask.loc, pl)
                                  /\ ctask' = [ctask EXCEPT
                                                 !.pc = "fanout", !.res = res,
                                                 !.sent = Append(@, Resp(ctask.loc, pl))]
                          ELSE /\ msg_out' = msg_out
                               /\ ctask' = [ctask EXCEPT !.pc = "fanout", !.res = res]
                    /\ counts' = CountsAfterChat(ts)
    /\ UNCHANGED <<commands, filters, timers, cancel_tasks, chan_fired, tasks, locks,
                   disk, inst, dtask, nchats, ninstalls,
                   sideVars>>

\* send chat to any and all web clients
ChatFanout ==
    /\ ctask.pc = "fanout"
    /\ LET pl == P_Chat(ctask.perms)
       IN /\ msg_out' = Send(msg_out, WebsocketsAll, pl)
          /\ ctask' = [ctask EXCEPT !.pc = "done",
                                    !.sent = Append(@, Resp(WebsocketsAll, pl))]
    /\ UNCHANGED <<commands, filters, timers, cancel_tasks, chan_fired, tasks, counts,
                   locks, disk, inst, dtask, nchats, ninstalls,
                   sideVars>>

(***************************************************************************)
(* The DumpConfig arm of Server::msg (Server::dump_config).                *)
(***************************************************************************)
IdleDump == [pc |-> "idle", loc |-> Pubsub, commands |-> <<>>, filters |-> <<>>,
             timers |-> <<>>]

DumpConfigRecv(loc) ==
    /\ dtask.pc = "idle"
    /\ dtask' = [IdleDump EXCEPT !.pc = "r_filters", !.loc = loc, !.commands = commands]
    /\ UNCHANGED <<commands, filters, timers, cancel_tasks, chan_fired, tasks, counts,
                   locks, msg_out, disk, inst, ctask, nchats, ninstalls,
                   sideVars>>

DumpConfigReadFilters ==
    /\ dtask.pc = "r_filters"
    /\ dtask' = [dtask EXCEPT !.pc = "r_timers", !.filters = filters]
    /\ UNCHANGED <<commands, filters, timers, cancel_tasks, chan_fired, tasks, counts,
                   locks, msg_out, disk, inst, ctask, nchats, ninstalls,
                   sideVars>>

DumpConfigReadTimers ==
    /\ dtask.pc = "r_timers"
    /\ dtask' = [dtask EXCEPT !.pc = "send", !.timers = timers]
    /\ UNCHANGED <<commands, filters, timers, cancel_tasks, chan_fired, tasks, counts,
                   locks, msg_out, disk, inst, ctask, nchats, ninstalls,
                   sideVars>>

DumpConfigSend ==
    /\ dtask.pc = "send"
    /\ msg_out' = Send(msg_out, dtask.loc,
                       P_ConfigDump(dtask.commands, dtask.filters, dtask.timers))
    /\ dtask' = [dtask EXCEPT !.pc = "done"]
    /\ UNCHANGED <<commands, filters, timers, cancel_tasks, chan_fired, tasks, counts,
                   locks, disk, inst, ctask, nchats, ninstalls,
                   sideVars>>

(***************************************************************************)
(* RussianRoulette: run (a user joins or starts the game) and the task of  *)
(* handle_end that resolves the game.                                      *)
(***************************************************************************)
RR_ACTIVE == "rr_active"
RR_PENALTY == MA_Timeout(60)
Heisters == {[id |-> "a", perms |-> NONE], [id |-> "b", perms |-> MEMBER],
             [id |-> "c", perms |-> MOD]}
IdleRoulette == [pc |-> "idle", heisters |-> <<>>, fates |-> <<>>, i |-> 1]

\* handle_heister punishing every loser, moderators included
HeisterPunishedAlways(perms) == TRUE

\* handle_heister: a loser below Mod gets the penalty
HeisterPunished(perms) == perms < MOD

\* decr_points: the row changes when it holds at least the amount
DeductChanges(balance, amount) == balance >= amount

\* self.payoff
RR_PAYOFF == 2
\* the wager of a call (args.amount, within the command's min and max)
RR_WAGER == 1
\* what the cache and the lock actor answer a call: both succeed, the
\* HashSet fails, the lock call fails
RunOutcomes == {"ok", "hset_err", "lock_err"}

\* one debited wager: whether the caller was recorded in the members hash
\* with it, and whether refund gave it back
Wager(u, member, refunded) ==
    [id |-> u.id, amount |-> RR_WAGER, member |-> member, refunded |-> refunded]

\* RussianRoulette::run for user u: Give(Id(u) -> Spend) debits the wager;
\* HashSet NX into the members hash (on an error the wager is refunded; on
\* a user already in the hash the reply is false and the handler panics at
\* unreachable!()); lock the active key (on an error the wager is
\* refunded); spawn handle_end if that started the game; announce. The
\* cooldown per user before run is passed: ratelimit_user is 0 or the
\* caller is a moderator
RouletteJoin(u, out) ==
    /\ njoins < MaxJoins
    /\ njoins' = njoins + 1
    /\ IF ~DeductChanges(points[u.id], RR_WAGER)
       THEN UNCHANGED <<rr_members, rtask, locks, msg_out, points, committed, wagers>>
       ELSE IF out = "hset_err"
       THEN /\ wagers' = Append(wagers, Wager(u, FALSE, TRUE))
            /\ UNCHANGED <<rr_members, rtask, locks, msg_out, points, committed>>
       ELSE IF \E k \in 1..Len(rr_members) : rr_members[k].id = u.id
       THEN /\ points' = [points EXCEPT ![u.id] = @ - RR_WAGER]
            /\ committed' = [committed EXCEPT ![u.id] = @ - RR_WAGER]
            /\ wagers' = Append(wagers, Wager(u, FALSE, FALSE))
            /\ UNCHANGED <<rr_members, rtask, locks, msg_out>>
       ELSE IF out = "lock_err"
       THEN /\ rr_members' = Append(rr_members, u)
            /\ wagers' = Append(wagers, Wager(u, TRUE, TRUE))
            /\ UNCHANGED <<rtask, locks, msg_out, points, committed>>
       ELSE /\ rr_members' = Append(rr_members, u)
            /\ points' = [points EXCEPT ![u.id] = @ - RR_WAGER]
            /\ committed' = [committed EXCEPT ![u.id] = @ - RR_WAGER]
            /\ wagers' = Append(wagers, Wager(u, TRUE, FALSE))
            /\ IF LockAcquired(locks, RR_ACTIVE)
               THEN /\ locks' = LockAfter(locks, RR_ACTIVE)
                    /\ rtask' = [IdleRoulette EXCEPT !.pc = "sleep"]
                    /\ msg_out' = Send(msg_out, Pubsub, P_Message("started"))
               ELSE /\ UNCHANGED <<locks, rtask>>
                    /\ msg_out' = Send(msg_out, Pubsub, P_Message("joined"))
    /\ UNCHANGED <<commands, filters, timers, cancel_tasks, chan_fired, tasks, counts,
                   disk, inst, ctask, dtask, nchats, ninstalls, gatewayVars, authVars,
                   egressVars, rlVars, pumpVars, streamVars, moreVars, gtask>>

\* handle_end after its sleep: HashGetAll, then a fate for every heister
RouletteEnd(fates) ==
    /\ rtask.pc = "sleep"
    /\ DOMAIN fates = 1..Len(rr_members)
    /\ rtask' = [pc |-> "heister", heisters |-> rr_members, fates |-> fates, i |-> 1]
    /\ UNCHANGED <<engineVars, rr_members, njoins, ioVars>>

\* handle_heister for the next heister: a survivor is given the payoff
\* (Give(None -> user, wager * payoff)), a loser below Mod the penalty
RouletteHeister ==
    /\ rtask.pc = "heister"
    /\ rtask.i <= Len(rtask.heisters)
    /\ LET u == rtask.heisters[rtask.i]
       IN /\ IF ~rtask.fates[rtask.i] /\ HeisterPunished(u.perms)
             THEN msg_out' = Send(msg_out, Broadcast,
                                  P_ModAction(u.perms, RR_PENALTY, "RussianRoulette"))
             ELSE msg_out' = msg_out
          /\ IF rtask.fates[rtask.i]
             THEN /\ points' = [points EXCEPT ![u.id] = @ + RR_WAGER * RR_PAYOFF]
                  /\ committed' = [committed EXCEPT ![u.id] = @ + RR_WAGER * RR_PAYOFF]
             ELSE UNCHANGED <<points, committed>>
    /\ rtask' = [rtask EXCEPT !.i = @ + 1]
    /\ UNCHANGED <<commands, filters, timers, cancel_tasks, chan_fired, tasks, counts,
                   locks, disk, inst, ctask, dtask, nchats, ninstalls, rr_members, njoins,
                   gatewayVars, authVars, egressVars, rlVars, pumpVars, streamVars, moreVars,
                   gtask, wagers>>

\* the end of handle_end: unlock (DEL) the members hash and the active key,
\* announce the result
RouletteFinish ==
    /\ rtask.pc = "heister"
    /\ rtask.i > Len(rtask.heisters)
    /\ rr_members' = <<>>
    /\ locks' = UnlockAfter(locks, RR_ACTIVE)
    /\ msg_out' = Send(msg_out, Pubsub, P_Message("over"))
    /\ rtask' = [rtask EXCEPT !.pc = "idle"]
    /\ UNCHANGED <<commands, filters, timers, cancel_tasks, chan_fired, tasks, counts,
                   disk, inst, ctask, dtask, nchats, ninstalls, njoins, ioVars>>

InitRoulette ==
    /\ rr_members = <<>>
    /\ rtask = IdleRoulette
    /\ njoins = 0

AllFates == UNION {[1..n -> BOOLEAN] : n \in 1..Cardinality(Heisters)}

RouletteNext(outs) ==
    \/ \E u \in Heisters, out \in outs : RouletteJoin(u, out)
    \/ \E fates \in AllFates : RouletteEnd(fates)
    \/ RouletteHeister
    \/ RouletteFinish

(***************************************************************************)
(* auth::Handle::handle: the rate-limit counter of the peer's IP, then the *)
(* message.                                                                *)
(***************************************************************************)
\* the TTL of the counter, renewed by every Increment
MAX_AUTH_RATELIMIT_BURST == 20

\* the users of the auth map, the names a message can carry, the codes
\* gen_code draws and a peer can try
AuthUsers == {"alice"}
UserNames == {"alice", "zed"}
Codes == {"c1", "c2"}
Ips == {"ip1", "ip2"}

ListUsers == [t |-> "ListUsers"]
RequestCode(u) == [t |-> "RequestCode", user |-> u]
Login(u, c) == [t |-> "Login", user |-> u, code |-> c]
AuthMsgs == {ListUsers} \cup {RequestCode(u) : u \in UserNames}
              \cup {Login(u, c) : u \in UserNames, c \in Codes}

A_Users == [t |-> "Users"]
A_InvalidUser == [t |-> "InvalidUser"]
A_CodeReady == [t |-> "CodeReady"]
A_CodeExpired == [t |-> "CodeExpired"]
A_AuthSuccess(u) == [t |-> "AuthSuccess", user |-> u]
A_AuthFail == [t |-> "AuthFail"]
A_Ratelimited == [t |-> "AuthError", err |-> "Ratelimited"]

\* a gate that lets one more message through
RatelimitedLate(rl_count) == rl_count > MAX_AUTH_RATELIMIT_COUNT + 1

\* if rl_count > *MAX_AUTH_RATELIMIT_COUNT
Ratelimited(rl_count) == rl_count > MAX_AUTH_RATELIMIT_COUNT

\* a comparison that takes any candidate for the stored code
CodeMatchesAny(stored, candidate) == TRUE

\* cod.as_str() == code.as_str()
CodeMatches(stored, candidate) == stored = candidate

\* the Login arm, past the gate
LoginResp(rl_count, stored, user, candidate) ==
    IF user \notin AuthUsers THEN A_AuthFail
    ELSE IF stored = "" THEN A_CodeExpired
    ELSE IF CodeMatches(stored, candidate) THEN A_AuthSuccess(user)
    ELSE IF rl_count = MAX_AUTH_RATELIMIT_COUNT THEN A_Ratelimited
    ELSE A_AuthFail

\* the answer of handle, rl_count being the counter after Cache::Increment
\* and stored the code of the message's user
AuthResp(rl_count, stored, msg) ==
    IF Ratelimited(rl_count) THEN A_Ratelimited
    ELSE IF msg.t = "ListUsers" THEN A_Users
    ELSE IF msg.t = "RequestCode"
         THEN IF msg.user \in AuthUsers THEN A_CodeReady ELSE A_InvalidUser
    ELSE LoginResp(rl_count, stored, msg.user, msg.code)

\* a Login that does not carry the code stored for its user
IncorrectLogin(msg) ==
    /\ msg.t = "Login"
    /\ ~(msg.user \in AuthUsers /\ code[msg.user] # "" /\ code[msg.user] = msg.code)

NoCall == [ip |-> "", msg |-> ListUsers, stored |-> "", before |-> 0, after |-> 0,
           resp |-> A_Users, rl_after |-> 0, code_after |-> "", pinged |-> FALSE,
           wrongs |-> 0, incorrect |-> FALSE, prev |-> FALSE]

\* a read that takes the key away
CacheGetTakes(stored) == ""

\* Cache::Get(key): what is stored under the key after GET
CacheGet(stored) == stored

\* handle(peer_ip, msg); gen is the code gen_code would draw; last.prev
\* tells whether the call before was answered AuthSuccess
Handle(ip, msg, gen) ==
    LET rl_count == rl[ip] + 1
        stored == IF msg.t = "ListUsers" THEN "" ELSE code[msg.user]
        resp == AuthResp(rl_count, stored, msg)
        wrongs == wrong[ip] + (IF IncorrectLogin(msg) THEN 1 ELSE 0)
    IN /\ nauth' = nauth + 1
       /\ rl' = [rl EXCEPT ![ip] = IF resp.t = "AuthSuccess" THEN 0 ELSE rl_count]
       /\ wrong' = [wrong EXCEPT ![ip] = IF resp.t = "AuthSuccess" THEN 0 ELSE wrongs]
       /\ IF resp = A_CodeReady
          THEN /\ code' = [code EXCEPT ![msg.user] = gen]
               /\ msg_out' = Send(msg_out, Pubsub, P_Ping(msg.user, gen))
          ELSE IF msg.t = "Login" /\ ~Ratelimited(rl_count) /\ msg.user \in AuthUsers
          THEN /\ code' = [code EXCEPT ![msg.user] = CacheGet(@)]
               /\ UNCHANGED msg_out
          ELSE UNCHANGED <<code, msg_out>>
       /\ last' = [ip |-> ip, msg |-> msg, stored |-> stored, before |-> rl[ip],
                   after |-> rl_count, resp |-> resp, rl_after |-> rl'[ip],
                   code_after |-> IF msg.t = "ListUsers" THEN "" ELSE code'[msg.user],
                   pinged |-> msg_out' # msg_out, wrongs |-> wrongs,
                   incorrect |-> IncorrectLogin(msg), prev |-> last.resp.t = "AuthSuccess"]

\* the counter's key expires (EXPIRE key burst, renewed by every message)
RlExpire(ip) ==
    /\ MAX_AUTH_RATELIMIT_BURST > 0
    /\ rl[ip] > 0
    /\ rl' = [rl EXCEPT ![ip] = 0]
    /\ wrong' = [wrong EXCEPT ![ip] = 0]
    /\ UNCHANGED <<engineVars, rouletteVars, cmdVars, gatewayVars, code, last, nauth,
                   egressVars>>

\* a stored code expires (SET key code EX expiry)
CodeExpire(u) ==
    /\ code[u] # ""
    /\ code' = [code EXCEPT ![u] = ""]
    /\ UNCHANGED <<engineVars, rouletteVars, cmdVars, gatewayVars, rl, last, wrong, nauth,
                   egressVars>>

InitAuth ==
    /\ rl = [ip \in Ips |-> 0]
    /\ code = [u \in UserNames |-> ""]
    /\ last = NoCall
    /\ wrong = [ip \in Ips |-> 0]
    /\ nauth = 0

(***************************************************************************)
(* The websocket gateway: Server::new_conn with Server::auth, the read     *)
(* pump Server::ws_read and the task of Server::disconnect.                *)
(***************************************************************************)
Peers == {"p1", "p2"}
IpOf(p) == IF p = "p1" THEN "ip1" ELSE "ip2"

HEARTBEAT_PING == [t |-> "ping"]
HEARTBEAT_PONG == [t |-> "pong"]
\* a text frame that is an application message, not an AuthMsg
AppFrame == [t |-> "app"]
\* a frame that is neither text nor binary nor close
OtherFrame == [t |-> "other"]

\* answered: AuthSuccess was sent to the peer; handled: the kinds of the
\* frames that went to the auth handler
\* the write pump of new_conn: not spawned, running, or out of its loop;
\* `taken` counts the messages it received from the session's channel
NoPump == [st |-> "none", taken |-> 0]
RunningPump == [st |-> "run", taken |-> 0]

NoConn == [st |-> "none", user |-> "", answered |-> FALSE, handled |-> {}]

\* a connection that came to be authenticated on any answer to a Login
AuthenticatedLoose(resp) == resp.t \in {"AuthSuccess", "AuthFail"}

\* if let AuthResp::AuthSuccess(user) = resp
Authenticated(resp) == resp.t = "AuthSuccess"

\* listener.accept(), the handshake of new_conn
WsAccept(p) ==
    /\ conn[p].st = "none"
    /\ conn' = [conn EXCEPT ![p].st = "auth"]
    /\ UNCHANGED <<engineVars, rouletteVars, cmdVars, clients, msg_in, authVars,
                   egressVars>>

\* Server::auth: a heartbeat ping is answered with a pong, whoever sends
\* it; nothing of the server changes
WsAuthPing(p) ==
    /\ conn[p].st = "auth"
    /\ UNCHANGED <<engineVars, rouletteVars, cmdVars, gatewayVars, authVars, egressVars>>

\* Server::auth: a frame that is no text, or does not parse as an AuthMsg,
\* is passed over
WsAuthSkip(p, f) ==
    /\ conn[p].st = "auth"
    /\ f \in {AppFrame, OtherFrame}
    /\ UNCHANGED <<engineVars, rouletteVars, cmdVars, gatewayVars, authVars, egressVars>>

\* Server::auth: a close frame, or the end of the stream, ends the task
WsAuthClose(p) ==
    /\ conn[p].st = "auth"
    /\ conn' = [conn EXCEPT ![p].st = "closed"]
    /\ UNCHANGED <<engineVars, rouletteVars, cmdVars, clients, msg_in, authVars,
                   egressVars>>

\* Server::auth: an AuthMsg goes to the auth handler and its answer to the
\* peer; on AuthSuccess the task returns to new_conn
WsAuthMsg(p, msg, gen) ==
    /\ conn[p].st = "auth"
    /\ nauth < MaxAuthMsgs
    /\ msg.t = "RequestCode" =>
         Cardinality({k \in 1..Len(msg_out) : msg_out[k].payload.t = "Ping"}) < MaxCodes
    /\ Handle(IpOf(p), msg, gen)
    /\ conn' = [conn EXCEPT ![p].answered = (last'.resp.t = "AuthSuccess"),
                            ![p].handled = @ \cup {msg.t},
                            ![p].st = IF Authenticated(last'.resp) THEN "authed" ELSE "auth",
                            ![p].user = IF Authenticated(last'.resp) THEN msg.user ELSE @]
    /\ UNCHANGED <<commands, filters, timers, cancel_tasks, chan_fired, tasks, counts,
                   locks, disk, inst, ctask, dtask, nchats, ninstalls, rouletteVars, cmdVars,
                   clients, msg_in, egressVars>>

\* new_conn: clients.write().insert(peer, ws_in_tx), then the two pumps
WsInsert(p) ==
    /\ conn[p].st = "authed"
    /\ clients' = clients \cup {p}
    /\ conn' = [conn EXCEPT ![p].st = "open"]
    /\ wpump' = [wpump EXCEPT ![p] = RunningPump]
    /\ UNCHANGED <<engineVars, rouletteVars, rlVars, streamVars, dbVars, moreVars, msg_in, authVars,
                   egressVars>>

\* ws_read: a heartbeat goes to the write pump, which answers it
WsReadPing(p) ==
    /\ conn[p].st = "open"
    /\ UNCHANGED <<engineVars, rouletteVars, cmdVars, gatewayVars, authVars, egressVars>>

\* ws_read: any other text frame goes to the ingress queue with its Location
WsReadFrame(p, f) ==
    /\ conn[p].st = "open"
    /\ Len(msg_in) < MaxForward
    /\ msg_in' = Append(msg_in, [loc |-> Websocket(p), user |-> conn[p].user, frame |-> f])
    /\ UNCHANGED <<engineVars, rouletteVars, cmdVars, conn, clients, authVars,
                   egressVars>>

\* ws_read: the stream ends; the peer's address goes to disconnect_tx
WsReadEnd(p) ==
    /\ conn[p].st = "open"
    /\ conn' = [conn EXCEPT ![p].st = "closing"]
    /\ UNCHANGED <<engineVars, rouletteVars, cmdVars, clients, msg_in, authVars,
                   egressVars>>

\* Server::disconnect: clients.write().remove(&addr)
WsDisconnect(p) ==
    /\ conn[p].st = "closing"
    /\ clients' = clients \ {p}
    /\ conn' = [conn EXCEPT ![p].st = "closed"]
    /\ UNCHANGED <<engineVars, rouletteVars, cmdVars, msg_in, authVars, egressVars>>

\* the write pump: ws_chan.recv() gave a message and ws_sender.send wrote it
WsWrite(p) ==
    /\ wpump[p].st = "run"
    /\ wpump[p].taken < Len(delivered[p])
    /\ wpump' = [wpump EXCEPT ![p].taken = @ + 1]
    /\ UNCHANGED <<engineVars, rouletteVars, rlVars, streamVars, dbVars, moreVars, gatewayVars, authVars,
                   egressVars>>

\* the write pump: ws_sender.send(msg) failed; break
WsWriteErr(p) ==
    /\ wpump[p].st = "run"
    /\ wpump[p].taken < Len(delivered[p])
    /\ wpump' = [wpump EXCEPT ![p] = [st |-> "exit", taken |-> @.taken + 1]]
    /\ UNCHANGED <<engineVars, rouletteVars, rlVars, streamVars, dbVars, moreVars, gatewayVars, authVars,
                   egressVars>>

\* the write pump: ws_chan.recv() gave None, the session's sender having
\* been dropped with its entry of the map; break
WsWriteClosed(p) ==
    /\ wpump[p].st = "run"
    /\ p \notin clients /\ conn[p].st = "closed"
    /\ wpump[p].taken = Len(delivered[p])
    /\ wpump' = [wpump EXCEPT ![p].st = "exit"]
    /\ UNCHANGED <<engineVars, rouletteVars, rlVars, streamVars, dbVars, moreVars, gatewayVars, authVars,
                   egressVars>>

\* the client stops reading: the socket's buffers fill and the pump's
\* ws_sender.send(..).await does not complete any more
ClientStalls(p) ==
    /\ wpump[p].st = "run"
    /\ wpump' = [wpump EXCEPT ![p].st = "stall"]
    /\ UNCHANGED <<engineVars, rouletteVars, rlVars, streamVars, dbVars, moreVars, gatewayVars, authVars,
                   egressVars>>

PumpNext ==
    \/ \E p \in Peers : WsWrite(p)
    \/ \E p \in Peers : WsWriteErr(p)
    \/ \E p \in Peers : WsWriteClosed(p)

InitGateway ==
    /\ wpump = [p \in Peers |-> NoPump]
    /\ conn = [p \in Peers |-> NoConn]
    /\ clients = {}
    /\ msg_in = <<>>

GatewayNext ==
    \/ \E p \in Peers : WsAccept(p)
    \/ \E p \in Peers : WsAuthPing(p)
    \/ \E p \in Peers, f \in {AppFrame, OtherFrame} : WsAuthSkip(p, f)
    \/ \E p \in Peers : WsAuthClose(p)
    \/ \E p \in Peers, msg \in AuthMsgs, gen \in {"c1"} : WsAuthMsg(p, msg, gen)
    \/ \E p \in Peers : WsInsert(p)
    \/ \E p \in Peers : WsReadPing(p)
    \/ \E p \in Peers, f \in {AppFrame, ListUsers} : WsReadFrame(p, f)
    \/ \E p \in Peers : WsReadEnd(p)
    \/ \E p \in Peers : WsDisconnect(p)

\* an auth message of a peer at `ip` reaches the handler
AuthCall(ip, msg, gen) ==
    /\ nauth < MaxCalls
    /\ msg.t = "RequestCode" =>
         Cardinality({k \in 1..Len(msg_out) : msg_out[k].payload.t = "Ping"}) < MaxCodes
    /\ Handle(ip, msg, gen)
    /\ UNCHANGED <<commands, filters, timers, cancel_tasks, chan_fired, tasks, counts,
                   locks, disk, inst, ctask, dtask, nchats, ninstalls, rouletteVars, cmdVars,
                   gatewayVars, egressVars>>

AuthNext ==
    \/ \E ip \in Ips, msg \in AuthMsgs, gen \in Codes : AuthCall(ip, msg, gen)
    \/ \E ip \in Ips : RlExpire(ip)
    \/ \E u \in AuthUsers : CodeExpire(u)

(***************************************************************************)
(* The egress: Server::msg_tx_loop, pubsub's pub_task with the publish     *)
(* tasks it spawns, and the gateway's fanout.                              *)
(***************************************************************************)
\* msg_tx_loop takes the next response and routes it by its Location
\* the destination of a ws::Msg: Some(addrs), None
SomeAddrs(addrs) == [some |-> TRUE, addrs |-> addrs]
NoAddrs == [some |-> FALSE, addrs |-> <<>>]

\* The capacity of pub_in_tx, of ws_in_tx and of each session's channel
CHAN_CAP == 32

\* ... with channels of capacity `cap`: pub_in_tx.send(..).await and
\* ws_in_tx.send(..).await complete when their channel has room
TxRouteTo(cap) ==
    /\ tx_next <= Len(msg_out)
    /\ LET r == msg_out[tx_next]
           m == [k |-> tx_next, payload |-> r.payload]
       IN /\ r.loc.loc \in {"Pubsub", "Broadcast"} => Len(pub_q) < cap
          /\ r.loc.loc \notin {"Pubsub"} => Len(ws_q) < cap
          /\ pub_q' = IF r.loc.loc \in {"Pubsub", "Broadcast"} THEN Append(pub_q, m)
                      ELSE pub_q
          /\ ws_q' = IF r.loc.loc = "Websocket"
                       THEN Append(ws_q, [dest |-> SomeAddrs(<<r.loc.addr>>), msg |-> m])
                     ELSE IF r.loc.loc = "WebsocketsSome"
                       THEN Append(ws_q, [dest |-> SomeAddrs(r.loc.addrs), msg |-> m])
                     ELSE IF r.loc.loc \in {"Websockets", "Broadcast"}
                       THEN Append(ws_q, [dest |-> NoAddrs, msg |-> m])
                     ELSE ws_q
    /\ tx_next' = tx_next + 1
    /\ UNCHANGED <<engineVars, rouletteVars, cmdVars, gatewayVars, authVars, pub_flying, published,
                   delivered>>

TxRoute == TxRouteTo(CHAN_CAP)

\* pub_task: a task is spawned to publish the message it received
PubSpawn ==
    /\ pub_q # <<>>
    /\ pub_flying' = pub_flying \cup {Head(pub_q)}
    /\ pub_q' = Tail(pub_q)
    /\ UNCHANGED <<engineVars, rouletteVars, cmdVars, gatewayVars, authVars, tx_next, published,
                   ws_q, delivered>>

\* one of the spawned tasks publishes
Publish(m) ==
    /\ m \in pub_flying
    /\ pub_flying' = pub_flying \ {m}
    /\ published' = Append(published, m)
    /\ UNCHANGED <<engineVars, rouletteVars, cmdVars, gatewayVars, authVars, tx_next, pub_q,
                   ws_q, delivered>>

\* a fanout that sends to every session of the map, whatever the destination
SendTimesAll(dest, map, p) == IF p \in map THEN 1 ELSE 0

\* Server::fanout: the number of sends to the session of peer p, the map
\* being `map`: one address is looked up in the map, several are filtered
\* by the map, and no address at all means every session of the map
SendTimes(dest, map, p) ==
    IF ~dest.some THEN (IF p \in map THEN 1 ELSE 0)
    ELSE IF Len(dest.addrs) = 1 THEN (IF dest.addrs[1] = p /\ p \in map THEN 1 ELSE 0)
    ELSE Len(SelectSeq(dest.addrs, LAMBDA a : a = p /\ a \in map))

\* the write pump of the session has not dropped its receiver
PumpAlive(p) == wpump[p].st \in {"run", "stall"}

\* the messages waiting in the session's channel
Waiting(p) == Len(delivered[p]) - wpump[p].taken

\* Server::fanout: tx.send(msg).await on the sessions' channels, of
\* capacity `cap`, one after the other; a send on the channel of a session
\* whose write pump has exited fails and is ignored, one on a full channel
\* waits for room
FanoutTo(cap) ==
    /\ ws_q # <<>>
    /\ LET w == Head(ws_q)
       IN /\ \A p \in Peers :
                (PumpAlive(p) /\ SendTimes(w.dest, clients, p) > 0)
                   => Waiting(p) + SendTimes(w.dest, clients, p) <= cap
          /\ delivered' = [p \in Peers |->
                             IF PumpAlive(p)
                             THEN delivered[p]
                                    \o [i \in 1..SendTimes(w.dest, clients, p) |-> w.msg]
                             ELSE delivered[p]]
    /\ ws_q' = Tail(ws_q)
    /\ UNCHANGED <<engineVars, rouletteVars, cmdVars, gatewayVars, authVars, tx_next, pub_q,
                   pub_flying, published>>

Fanout == FanoutTo(CHAN_CAP)

InitEgress ==
    /\ tx_next = 1
    /\ pub_q = <<>>
    /\ pub_flying = {}
    /\ published = <<>>
    /\ ws_q = <<>>
    /\ delivered = [p \in Peers |-> <<>>]

EgressNext ==
    \/ TxRoute
    \/ PubSpawn
    \/ \E m \in pub_flying : Publish(m)
    \/ Fanout

(***************************************************************************)
(* The command rate limiters (cmds/util.rs) and the update cooldown of     *)
(* Points and Hours: each lock call is one step, so that calls interleave  *)
(* and keys expire between the steps.                                      *)
(***************************************************************************)
RlTasks == {"t1", "t2"}
RlUsers == {"a", "b", "m"}
RlPerms == [a |-> NONE, b |-> MEMBER, m |-> MOD]
\* ratelimit, ratelimit_user, ratelimit_update: 0 is "not configured"
Rates == {0, 1}
\* format!("{}_{}", lock, cname)
RateKey == "rate_Ping_ping"
\* format!("{}_{}", &ratelimit_key, &user.id)
RateUserKey == [a |-> "rate_Ping_ping_a", b |-> "rate_Ping_ping_b", m |-> "rate_Ping_ping_m"]
\* format!("{}_{}", &*POINTS_LOCK_UPDATE_RATE, &user.id)
UpdateKey == [a |-> "update_rate_a", b |-> "update_rate_b", m |-> "update_rate_m"]
RateKeys == {RateKey} \cup {RateUserKey[u] : u \in RlUsers} \cup {UpdateKey[u] : u \in RlUsers}

ExemptAdmin(perms) == perms >= ADMIN

\* user.perms >= Permissions::MOD
Exempt(perms) == perms >= MOD

IdleRl == [pc |-> "idle", fn |-> "", user |-> "a", rate |-> 0, rate_user |-> 0,
           tried |-> <<>>, got |-> {}, freed |-> {}, res |-> "", n |-> 0]

RlDone(r, res) == [r EXCEPT !.pc = "done", !.res = res]

\* ctx.lock.lock(key, ttl) by call r: the record after it and the keys after it
RlLock(r, key) ==
    [r EXCEPT !.tried = Append(@, key),
              !.got = IF LockAcquired(locks, key) THEN @ \cup {key} ELSE @]

notRl == <<commands, filters, timers, cancel_tasks, chan_fired, tasks, counts,
           msg_out, disk, inst, ctask, dtask, nchats, ninstalls,
           rouletteVars, gatewayVars, authVars, egressVars, pumpVars, streamVars, dbVars,
           moreVars>>

\* A handler calls ratelimit_global, ratelimit_user, or (Points::run,
\* Hours::run with user_asked false) its update cooldown; the part up to the
\* first lock call.
RatelimitCall(t, fn, u, rg, ru) ==
    /\ rcall[t].pc \in {"idle", "done"}
    /\ rcall[t].n < MaxRlCalls
    /\ LET r == [IdleRl EXCEPT !.fn = fn, !.user = u, !.rate = rg, !.rate_user = ru,
                               !.n = rcall[t].n + 1]
           first ==
              CASE fn = "ratelimit_global" ->
                     IF ~Exempt(RlPerms[u]) /\ (rg > 0 \/ ru > 0)
                     THEN (IF rg > 0 THEN "global" ELSE "user") ELSE "done"
                [] fn = "ratelimit_user" ->
                     IF Exempt(RlPerms[u]) \/ ru = 0 THEN "done" ELSE "user_only"
                [] OTHER -> IF ru > 0 THEN "update" ELSE "done"
       IN rcall' = [rcall EXCEPT ![t] =
                      IF first = "done" THEN RlDone(r, "Free") ELSE [r EXCEPT !.pc = first]]
    /\ UNCHANGED <<locks, notRl>>

\* ratelimit_global: ratelimit > 0 && !ctx.lock.lock(&ratelimit_key, ratelimit).await?
RatelimitGlobalLock(t, ok) ==
    /\ rcall[t].pc = "global"
    /\ IF ok
       THEN /\ locks' = LockAfter(locks, RateKey)
            /\ rcall' = [rcall EXCEPT ![t] =
                 LET r == RlLock(@, RateKey)
                 IN IF ~LockAcquired(locks, RateKey) THEN RlDone(r, "Ratelimited")
                    ELSE IF r.rate_user > 0 THEN [r EXCEPT !.pc = "user"]
                    ELSE RlDone(r, "Free")]
       ELSE /\ rcall' = [rcall EXCEPT ![t] = RlDone(@, "Err")]
            /\ UNCHANGED locks
    /\ UNCHANGED notRl

\* ratelimit_global: ratelimit_user > 0 && !ctx.lock.lock(user key).await?
RatelimitGlobalUserLock(t, ok) ==
    /\ rcall[t].pc = "user"
    /\ LET key == RateUserKey[rcall[t].user]
       IN IF ok
          THEN /\ locks' = LockAfter(locks, key)
               /\ rcall' = [rcall EXCEPT ![t] =
                    LET r == RlLock(@, key)
                    IN IF LockAcquired(locks, key) THEN RlDone(r, "Free")
                       ELSE [r EXCEPT !.pc = "unlock"]]
          ELSE /\ rcall' = [rcall EXCEPT ![t] = RlDone(@, "Err")]
               /\ UNCHANGED locks
    /\ UNCHANGED notRl

\* ratelimit_global: ctx.lock.unlock(ratelimit_key).await?; return Ok(true)
RatelimitGlobalUnlock(t, ok) ==
    /\ rcall[t].pc = "unlock"
    /\ IF ok
       THEN /\ locks' = UnlockAfter(locks, RateKey)
            /\ rcall' = [rcall EXCEPT ![t] =
                 RlDone([@ EXCEPT !.freed = @ \cup ({RateKey} \ locks')], "Ratelimited")]
       ELSE /\ rcall' = [rcall EXCEPT ![t] = RlDone(@, "Err")]
            /\ UNCHANGED locks
    /\ UNCHANGED notRl

\* ratelimit_user: !ctx.lock.lock(&key, ratelimit_user).await?
RatelimitUserLock(t, ok) ==
    /\ rcall[t].pc = "user_only"
    /\ LET key == RateUserKey[rcall[t].user]
       IN IF ok
          THEN /\ locks' = LockAfter(locks, key)
               /\ rcall' = [rcall EXCEPT ![t] =
                    RlDone(RlLock(@, key),
                           IF LockAcquired(locks, key) THEN "Free" ELSE "Ratelimited")]
          ELSE /\ rcall' = [rcall EXCEPT ![t] = RlDone(@, "Err")]
               /\ UNCHANGED locks
    /\ UNCHANGED notRl

\* Points::run, Hours::run: !ctx.lock.lock(user_ratelimit_key, cooldown).await?
UpdateLock(t, ok) ==
    /\ rcall[t].pc = "update"
    /\ LET key == UpdateKey[rcall[t].user]
       IN IF ok
          THEN /\ locks' = LockAfter(locks, key)
               /\ rcall' = [rcall EXCEPT ![t] =
                    RlDone(RlLock(@, key),
                           IF LockAcquired(locks, key) THEN "Free" ELSE "Ratelimited")]
          ELSE /\ rcall' = [rcall EXCEPT ![t] = RlDone(@, "Err")]
               /\ UNCHANGED locks
    /\ UNCHANGED notRl

\* a rate-limit key expires by its TTL
RateLockExpire(key) ==
    /\ key \in locks
    /\ locks' = locks \ {key}
    /\ UNCHANGED <<rcall, notRl>>

InitRatelimit == rcall = [t \in RlTasks |-> IdleRl]

RatelimitNext(fns) ==
    \/ \E t \in RlTasks, fn \in fns, u \in RlUsers, rg \in Rates, ru \in Rates :
          RatelimitCall(t, fn, u, rg, ru)
    \/ \E t \in RlTasks, ok \in BOOLEAN : RatelimitGlobalLock(t, ok)
    \/ \E t \in RlTasks, ok \in BOOLEAN : RatelimitGlobalUserLock(t, ok)
    \/ \E t \in RlTasks, ok \in BOOLEAN : RatelimitGlobalUnlock(t, ok)
    \/ \E t \in RlTasks, ok \in BOOLEAN : RatelimitUserLock(t, ok)
    \/ \E t \in RlTasks, ok \in BOOLEAN : UpdateLock(t, ok)
    \/ \E key \in RateKeys : RateLockExpire(key)

(***************************************************************************)
(* A handler sends a response to a Location (Response::send).              *)
(***************************************************************************)
RespSendTo(max, loc) ==
    /\ Len(msg_out) < max
    /\ msg_out' = Send(msg_out, loc, P_Message("m"))
    /\ UNCHANGED <<commands, filters, timers, cancel_tasks, chan_fired, tasks, counts,
                   locks, disk, inst, ctask, dtask, nchats, ninstalls, sideVars>>

RespSend(loc) == RespSendTo(MaxEmits, loc)

\* the Locations a response is sent to in this model
RouteLocations ==
    {Pubsub, Broadcast, WebsocketsAll, Websocket("p1"), Websocket("p2")}
      \cup {WebsocketsSome(l) : l \in {<<>>, <<"p1">>, <<"p1", "p2">>, <<"p2", "p1">>,
                                       <<"p2", "p2">>}}

(***************************************************************************)
(* Server::stream_event for StreamEvent::Started(url, id) on one platform: *)
(* the handlers run as spawned tasks; redis runs each SET key id GET as    *)
(* one command.                                                            *)
(***************************************************************************)
StreamTasks == {"e1", "e2", "e3"}
StreamIds == {"vid1", "vid2"}
P_StreamAnnouncement(id) == [t |-> "StreamAnnouncement", id |-> id]

IdleStream == [pc |-> "idle", id |-> "", prev |-> "", pos |-> 0, announce |-> FALSE]

AnnounceAlways(prev, id) == TRUE

\* let announce = match prev_id: a nil reply (TypeError) or a different id
Announce(prev, id) == prev = "" \/ prev # id

notStream == <<commands, filters, timers, cancel_tasks, chan_fired, tasks, counts,
               locks, disk, inst, ctask, dtask, nchats, ninstalls,
               rouletteVars, gatewayVars, authVars, egressVars, rlVars, pumpVars, dbVars,
               moreVars>>

\* a Started(url, id) event is dispatched to a handler task
StreamStarted(e, id) ==
    /\ stask[e].pc = "idle"
    /\ stask' = [stask EXCEPT ![e] = [IdleStream EXCEPT !.pc = "setget", !.id = id]]
    /\ UNCHANGED <<stream_id, swaps, msg_out, notStream>>

\* Cache::SetGet(id_key, id, 0) and the match on its reply; a redis error
\* other than the nil reply announces nothing
StreamSetGet(e, ok) ==
    /\ stask[e].pc = "setget"
    /\ IF ok
       THEN /\ stream_id' = stask[e].id
            /\ swaps' = Append(swaps, stask[e].id)
            /\ stask' = [stask EXCEPT ![e] =
                 [@ EXCEPT !.prev = stream_id,
                           !.pos = Len(swaps) + 1,
                           !.announce = Announce(stream_id, stask[e].id),
                           !.pc = IF Announce(stream_id, stask[e].id)
                                  THEN "invoke" ELSE "done"]]
       ELSE /\ stask' = [stask EXCEPT ![e].pc = "done"]
            /\ UNCHANGED <<stream_id, swaps>>
    /\ UNCHANGED <<msg_out, notStream>>

\* self.invoke of the synthesised @stream_event invocation: Stream::run
\* announces the stream
StreamInvoke(e) ==
    /\ stask[e].pc = "invoke"
    /\ msg_out' = Send(msg_out, Pubsub, P_StreamAnnouncement(stask[e].id))
    /\ stask' = [stask EXCEPT ![e].pc = "done"]
    /\ UNCHANGED <<stream_id, swaps, notStream>>

InitStream ==
    /\ stream_id = ""
    /\ stask = [e \in StreamTasks |-> IdleStream]
    /\ swaps = <<>>

StreamNext ==
    \/ \E e \in StreamTasks, id \in StreamIds : StreamStarted(e, id)
    \/ \E e \in StreamTasks, ok \in BOOLEAN : StreamSetGet(e, ok)
    \/ \E e \in StreamTasks : StreamInvoke(e)

(***************************************************************************)
(* The Give operation of the database actor (db/give.rs): one transaction  *)
(* per call, each statement one step; an UPDATE or SELECT FOR UPDATE holds *)
(* its row until the transaction ends. The SQL files are not part of the   *)
(* sources: the statements follow the specification's section 4.3.1.       *)
(***************************************************************************)
GiveTasks == {"g1", "g2"}
DbRows == {"a", "b", "c"}
InitPoints == [a |-> 2, b |-> 1, c |-> 2]
ZeroDelta == [u \in DbRows |-> 0]

\* an i64 as <<q, r>>: the value q * 2^31 + r, with 0 <= r < 2^31
I64(q, r) == <<q, r>>
\* `v as i32`: the low 32 bits, as a signed number
as_i32(v) == IF v[1] % 2 = 0 THEN v[2] ELSE v[2] - 2147483647 - 1
\* n < v, for a non-negative i64 v and an i32 n
LessI64(n, v) == v[1] > 0 \/ n < v[2]

GiveSourceId(id) == [kind |-> "Id", id |-> id]
GiveSourceNone == [kind |-> "None", id |-> ""]
GiveTargetUser(id) == [kind |-> "User", id |-> id]
GiveTargetName(name) == [kind |-> "Name", id |-> name]
GiveTargetSpend == [kind |-> "Spend", id |-> ""]
GiveOp(from, to, amount, min, max) ==
    [from |-> from, to |-> to, amount |-> amount, min |-> min, max |-> max]

IdleGive == [pc |-> "idle", op |-> GiveOp(GiveSourceNone, GiveTargetSpend, 0, I64(0, 0), I64(0, 0)),
             resolved |-> -2, amt |-> 0, held |-> {}, delta |-> ZeroDelta,
             applied |-> ZeroDelta, res |-> "", n |-> 0]

\* a transaction whose failure leaves its statements' effects in place
AfterRollbackKeeps(pts, delta) == [u \in DbRows |-> pts[u] + delta[u]]

\* the Transaction is dropped without commit: ROLLBACK
AfterRollback(pts, delta) == pts

\* client.commit()
AfterCommit(pts, delta) == [u \in DbRows |-> pts[u] + delta[u]]

\* the row is not held by another transaction
CanLock(g, u) == \A h \in GiveTasks \ {g} : u \notin gtask[h].held

notGive == <<engineVars, rouletteVars, gatewayVars, authVars, egressVars, rlVars,
             pumpVars, streamVars, moreVars, wagers>>

\* the call returns an error; the transaction is rolled back
GiveFail(g, res) ==
    /\ gtask' = [gtask EXCEPT ![g] =
                   [@ EXCEPT !.pc = "done", !.res = res, !.held = {},
                             !.delta = ZeroDelta, !.applied = ZeroDelta]]
    /\ points' = AfterRollback(points, gtask[g].delta)
    /\ UNCHANGED committed

\* Db::Give(op): build_transaction().start() and the match on (from, to)
GiveBegin(g, op) ==
    /\ gtask[g].pc \in {"idle", "done"}
    /\ gtask[g].n < MaxGives
    /\ gtask' = [gtask EXCEPT ![g] =
                   [IdleGive EXCEPT !.pc = IF op.from.kind = "None" THEN "deposit"
                                           ELSE "amount",
                                    !.op = op, !.amt = op.amount, !.n = gtask[g].n + 1]]
    /\ UNCHANGED <<points, committed, notGive>>

\* get_amount: the balance under SELECT ... FOR UPDATE when amount == -1;
\* AmountBelowMin when the amount is below `min as i32`; clamp to `max as i32`
GiveGetAmount(g) ==
    /\ gtask[g].pc = "amount"
    /\ LET t == gtask[g]
           src == t.op.from.id
           all == t.op.amount = -1
           amount == IF all THEN points[src] ELSE t.op.amount
           max == as_i32(t.op.max)
       IN /\ all => CanLock(g, src)
          /\ IF amount < as_i32(t.op.min)
             THEN /\ gtask' = [gtask EXCEPT ![g] =
                       [@ EXCEPT !.pc = "done", !.res = "AmountBelowMin", !.held = {},
                                 !.resolved = amount]]
                  /\ points' = AfterRollback(points, t.delta)
             ELSE /\ gtask' = [gtask EXCEPT ![g] =
                       [@ EXCEPT !.pc = "deduct", !.resolved = amount,
                                 !.amt = IF amount < max THEN amount ELSE max,
                                 !.held = IF all THEN @ \cup {src} ELSE @]]
                  /\ UNCHANGED points
    /\ UNCHANGED <<committed, notGive>>

\* handle_deduct_id: Deduct when no row changed
GiveDeduct(g) ==
    /\ gtask[g].pc = "deduct"
    /\ LET t == gtask[g]
           src == t.op.from.id
       IN /\ CanLock(g, src)
          /\ IF DeductChanges(points[src] + t.delta[src], t.amt)
             THEN /\ gtask' = [gtask EXCEPT ![g] =
                       [@ EXCEPT !.pc = IF t.op.to.kind = "Spend" THEN "commit" ELSE "deposit",
                                 !.held = @ \cup {src},
                                 !.delta = [@ EXCEPT ![src] = @ - t.amt]]]
                  /\ UNCHANGED <<points, committed>>
             ELSE GiveFail(g, "Deduct")
    /\ UNCHANGED notGive

\* handle_deposit_id, handle_deposit_name: Deposit when no row changed
GiveDeposit(g) ==
    /\ gtask[g].pc = "deposit"
    /\ LET t == gtask[g]
           tgt == t.op.to.id
       IN IF tgt \in DbRows
          THEN /\ CanLock(g, tgt)
               /\ gtask' = [gtask EXCEPT ![g] =
                    [@ EXCEPT !.pc = "commit", !.held = @ \cup {tgt},
                              !.delta = [@ EXCEPT ![tgt] = @ + t.amt]]]
               /\ UNCHANGED <<points, committed>>
          ELSE GiveFail(g, "Deposit")
    /\ UNCHANGED notGive

\* client.commit().await?; Ok(amount)
GiveCommit(g, ok) ==
    /\ gtask[g].pc = "commit"
    /\ IF ok
       THEN /\ points' = AfterCommit(points, gtask[g].delta)
            /\ committed' = [u \in DbRows |-> committed[u] + gtask[g].delta[u]]
            /\ gtask' = [gtask EXCEPT ![g] =
                 [@ EXCEPT !.pc = "done", !.res = "Ok", !.held = {},
                           !.applied = gtask[g].delta, !.delta = ZeroDelta]]
       ELSE GiveFail(g, "Err")
    /\ UNCHANGED notGive

\* a statement fails in the database (the connection, a deadlock the server
\* resolves by aborting this transaction): the call ends with the error
GiveDbError(g) ==
    /\ gtask[g].pc \in {"amount", "deduct", "deposit"}
    /\ GiveFail(g, "Err")
    /\ UNCHANGED notGive

InitDb ==
    /\ points = InitPoints
    /\ committed = ZeroDelta
    /\ gtask = [g \in GiveTasks |-> IdleGive]
    /\ wagers = <<>>

GiveNext(ops) ==
    \/ \E g \in GiveTasks, op \in ops : GiveBegin(g, op)
    \/ \E g \in GiveTasks : GiveGetAmount(g)
    \/ \E g \in GiveTasks : GiveDeduct(g)
    \/ \E g \in GiveTasks : GiveDeposit(g)
    \/ \E g \in GiveTasks, ok \in BOOLEAN : GiveCommit(g, ok)
    \/ \E g \in GiveTasks : GiveDbError(g)

(***************************************************************************)
(* The engine after Server::start: the configuration on disk is loaded and *)
(* its tasks are spawned on the first cancel channel.                      *)
(***************************************************************************)
InitEngine(cfg) ==
    /\ commands = cfg.commands
    /\ filters = cfg.filters
    /\ timers = cfg.timers
    /\ cancel_tasks = 1
    /\ chan_fired = {}
    /\ tasks = SpawnTimers(cfg.timers, 1, 1) \o SpawnLogs(cfg.commands, 1, 1)
    /\ counts = [n \in TimerNames |-> 0]
    /\ locks = {}
    /\ msg_out = <<>>
    /\ disk = [f \in {"commands", "filters", "timers"} |-> cfg[f]]
    /\ inst = [h \in Installers |-> IdleInst]
    /\ ctask = IdleChat
    /\ dtask = IdleDump
    /\ nchats = 0
    /\ ninstalls = 0

\* The inputs of one chat's handlers: an outcome per filter, a result per
\* command
RuleCount == 3
AllOutcomes == UNION {[1..n -> {"trip", "pass", "err"}] : n \in 0..RuleCount}
ResultsOf(cfgs) ==
    UNION {[1..Len(cfg.commands) ->
               UNION {CmdResults(cfg.commands[i]) : i \in 1..Len(cfg.commands)}] :
           cfg \in cfgs}
AllResults == ResultsOf(ChatConfigs)
\* ... and those of a chat that trips no filter and runs no command
QuietOutcomes == UNION {[1..n -> {"pass"}] : n \in 0..RuleCount}
QuietResults == UNION {[1..n -> {R_Noop}] : n \in 0..2}

\* An install whose three files are all written
SavedAll == {{"commands", "filters", "timers"}}
SaveOutcomes == {{"commands", "filters", "timers"}, {"commands"}, {}}

InstallNext(h, origins, saves) ==
    \/ \E cfg \in Configs, loc \in origins : ConfigDumpRecv(h, cfg, loc)
    \/ ConfigDumpLock(h)
    \/ ConfigDumpTasks(h)
    \/ ConfigDumpWriteCommands(h)
    \/ ConfigDumpWriteFilters(h)
    \/ ConfigDumpWriteTimers(h)
    \/ \E written \in saves : ConfigDumpSave(h, written)
    \/ ConfigDumpSendSaved(h)
    \/ ConfigDumpSendChanged(h)
    \/ ConfigDumpUnlock(h)

ChatNext(users, outcomes, results) ==
    \/ \E perms \in users, loc \in Origins : ChatRecv(perms, loc)
    \/ \E oc \in outcomes : ChatRunFilters(oc)
    \/ ChatArbitrate
    \/ ChatReadRules
    \/ \E rc \in results : ChatRunCmds(rc)
    \/ ChatFanout

TaskNext ==
    \/ \E i \in 1..Len(tasks) : TaskWake(i)
    \/ \E i \in 1..Len(tasks) : TimerSetGet(i)
    \/ \E i \in 1..Len(tasks) : TimerSend(i)
    \/ \E i \in 1..Len(tasks) : LogSweep(i)

DumpNext ==
    \/ \E loc \in Origins : DumpConfigRecv(loc)
    \/ DumpConfigReadFilters
    \/ DumpConfigReadTimers
    \/ DumpConfigSend

(***************************************************************************)
(* Rules and their dumps: the constructor and the dump that the `command`  *)
(* attribute generates for every rule struct (back_derive), cmds::Value    *)
(* and its conversions, Command::new, cmds::load and the deserialisation   *)
(* of a CommandConfig. Two rule kinds are written out, Timer and Filter;   *)
(* Value::Regex has no field in them and is left out.                      *)
(***************************************************************************)
V_None == [t |-> "None"]
V_String(s) == [t |-> "String", s |-> s]
V_Number(n) == [t |-> "Number", n |-> n]
V_Bool(b) == [t |-> "Bool", b |-> b]
V_Permissions(x) == [t |-> "Permissions", bits |-> x]
V_Platforms(x) == [t |-> "Platforms", bits |-> x]
V_ModAction(a) == [t |-> "ModAction", a |-> a]

\* cmds::Constraint
K_None == [c |-> "None"]
K_NonEmpty == [c |-> "NonEmpty"]
K_Positive == [c |-> "Positive"]
K_Negative == [c |-> "Negative"]
K_RangeClosed(lo, hi) == [c |-> "RangeClosed", lo |-> lo, hi |-> hi]

\* impl VerifyConstraint for Value
Verify(value, constr) ==
    CASE constr.c = "None" -> TRUE
      [] value.t = "String" /\ constr.c = "NonEmpty" -> value.s # ""
      [] value.t = "String" /\ constr.c = "RangeClosed" ->
            constr.lo <= Len(value.s) /\ Len(value.s) <= constr.hi
      [] value.t = "Number" /\ constr.c = "Positive" -> value.n >= 0
      [] value.t = "Number" /\ constr.c = "Negative" -> value.n < 0
      [] value.t = "Number" /\ constr.c = "RangeClosed" ->
            constr.lo <= value.n /\ value.n <= constr.hi
      [] value.t = "ModAction" /\ constr.c = "RangeClosed" /\ value.a[1] = 3 ->
            constr.lo <= value.a[2] /\ value.a[2] <= constr.hi
      [] OTHER -> TRUE

\* the bits of all flags of Platform and of Permissions
PLATFORM_ALL == 15
PERMISSIONS_ALL == 31

\* impl TryFrom<Value> for bool, u64, i64, String, Platform, Permissions,
\* ModAction: the value of the field, or an error
TryOk(x) == [ok |-> TRUE, x |-> x]
TryErr == [ok |-> FALSE]
TryFrom(ty, value) ==
    CASE ty = "bool" /\ value.t = "Bool" -> TryOk(value.b)
      [] ty = "u64" /\ value.t = "Number" ->
            IF value.n >= 0 THEN TryOk(value.n) ELSE TryErr
      [] ty = "i64" /\ value.t = "Number" -> TryOk(value.n)
      [] ty = "String" /\ value.t = "String" -> TryOk(value.s)
      [] ty = "Platform" /\ value.t = "Platforms" ->
            IF value.bits \in 0..PLATFORM_ALL THEN TryOk(value.bits) ELSE TryErr
      [] ty = "Permissions" /\ value.t = "Permissions" ->
            IF value.bits \in 0..PERMISSIONS_ALL THEN TryOk(value.bits) ELSE TryErr
      [] ty = "ModAction" /\ value.t = "ModAction" -> TryOk(value.a)
      [] OTHER -> TryErr

\* impl From<bool>, From<u64>, ... for Value
ValueFrom(ty, x) ==
    CASE ty = "bool" -> V_Bool(x)
      [] ty \in {"u64", "i64"} -> V_Number(x)
      [] ty = "String" -> V_String(x)
      [] ty = "Platform" -> V_Platforms(x)
      [] ty = "Permissions" -> V_Permissions(x)
      [] ty = "ModAction" -> V_ModAction(x)

\* a field of a rule struct: its type, its constraint and its default
Field(name, ty, constr, def) == [name |-> name, ty |-> ty, constr |-> constr, def |-> def]

\* the fields the macro dumps and constructs, in declaration order:
\* `enabled`, added by the macro, then the struct's own
Schema(kind) ==
    IF kind = "Timer"
    THEN <<Field("enabled", "bool", K_None, FALSE),
           Field("platforms", "Platform", K_None, 7),
           Field("interval", "u64", K_Positive, 0),
           Field("jitter", "u64", K_Positive, 0),
           Field("msg", "String", K_None, ""),
           Field("msg_count", "u64", K_Positive, 1)>>
    ELSE <<Field("enabled", "bool", K_None, FALSE),
           Field("apply_to", "Permissions", K_None, 1),
           Field("platforms", "Platform", K_None, 7),
           Field("action", "ModAction", K_RangeClosed(1, 86400), MA_None),
           Field("user_contains", "String", K_None, ""),
           Field("msg_contains", "String", K_None, ""),
           Field("id_contains", "String", K_None, "")>>

\* the kinds of declare_cmds! that are written out here
Kinds == {"Timer", "Filter"}

\* CmdDump = (cmd type, cmd name, key-value pairs)
CmdDump(kind, name, kv) == [kind |-> kind, name |-> name, kv |-> kv]

\* kv collected into a HashMap: of two pairs of one key the later one stays
HasKey(kv, key) == \E j \in 1..Len(kv) : kv[j][1] = key
Lookup(kv, key) ==
    kv[CHOOSE j \in 1..Len(kv) :
          kv[j][1] = key /\ \A k \in (j + 1)..Len(kv) : kv[k][1] # key][2]

\* the constructor keeping the default of every field
FieldNewDefault(f, kv) == f.def

\* the field after `if let Some(value) = kv.remove(name)`: the converted
\* value, or the default when the key is missing or the conversion fails
FieldNew(f, kv) ==
    IF HasKey(kv, f.name) /\ TryFrom(f.ty, Lookup(kv, f.name)).ok
    THEN TryFrom(f.ty, Lookup(kv, f.name)).x
    ELSE f.def

\* <rule>::new(name, kv): None as soon as a value fails its field's
\* verification
NoRule == [kind |-> "None"]
RuleNew(kind, name, kv) ==
    LET sch == Schema(kind)
    IN IF \E i \in 1..Len(sch) :
            HasKey(kv, sch[i].name) /\ ~Verify(Lookup(kv, sch[i].name), sch[i].constr)
       THEN NoRule
       ELSE [kind |-> kind, name |-> name,
             fields |-> [i \in 1..Len(sch) |-> FieldNew(sch[i], kv)]]

\* <rule>::dump(): the fields in declaration order
RuleDump(r) ==
    LET sch == Schema(r.kind)
    IN CmdDump(r.kind, r.name,
               [i \in 1..Len(sch) |-> <<sch[i].name, ValueFrom(sch[i].ty, r.fields[i])>>])

\* Command::new: None for an unknown kind, and the unwrap() of the rule's
\* constructor, which panics on None
CommandNew(d) ==
    IF d.kind \notin Kinds THEN [st |-> "none"]
    ELSE IF RuleNew(d.kind, d.name, d.kv) = NoRule THEN [st |-> "panic"]
    ELSE [st |-> "some", rule |-> RuleNew(d.kind, d.name, d.kv)]

\* the rules of the dumps whose Command::new returned one
SomeRules(ds) ==
    LET made == SelectSeq(ds, LAMBDA d : CommandNew(d).st = "some")
    IN [i \in 1..Len(made) |-> CommandNew(made[i]).rule]

\* cmds::load: Command::new(dump).unwrap() in one blocking task per dump; a
\* task that panicked is left out by flat_map(|r| r.ok())
load(ds) == [ok |-> TRUE, rules |-> SomeRules(ds)]

\* Deserialize for CommandConfig: reinflate is filter_map(Command::new)
\* inside the task that deserialises the message; when it panics the
\* message is dropped by msg_rx_loop
reinflate(ds) ==
    IF \E i \in 1..Len(ds) : CommandNew(ds[i]).st = "panic"
    THEN [ok |-> FALSE, rules |-> <<>>]
    ELSE [ok |-> TRUE, rules |-> SomeRules(ds)]

NoLoad == [op |-> "none", input |-> <<>>, ok |-> TRUE, rules |-> <<>>,
           dumped |-> FALSE, dump |-> <<>>]

notLoad == <<engineVars, rouletteVars, gatewayVars, authVars, egressVars, rlVars,
             pumpVars, streamVars, dbVars, otpVars, lateVars>>

\* cmds::load of the configuration file, which holds the dumps ld.input
CmdsLoad ==
    /\ ld.op = "none"
    /\ ld' = [ld EXCEPT !.op = "load", !.rules = load(ld.input).rules]
    /\ UNCHANGED notLoad

\* the message with Payload::ConfigDump, which holds the dumps ld.input, is
\* deserialised
ConfigDeserialize ==
    /\ ld.op = "none"
    /\ ld' = [ld EXCEPT !.op = "install", !.ok = reinflate(ld.input).ok,
                        !.rules = reinflate(ld.input).rules]
    /\ UNCHANGED notLoad

\* the rules are dumped again (cmds::save, Serialize for CommandConfig)
RulesDump ==
    /\ ld.op # "none" /\ ld.ok /\ ~ld.dumped
    /\ ld' = [ld EXCEPT !.dumped = TRUE,
                        !.dump = [i \in 1..Len(ld.rules) |-> RuleDump(ld.rules[i])]]
    /\ UNCHANGED notLoad

InitLoad == ld = NoLoad

LoadNext ==
    \/ CmdsLoad
    \/ ConfigDeserialize
    \/ RulesDump

(***************************************************************************)
(* Link::handle_gen_otp: one-time codes stored in the cache with           *)
(* SET key user EX expiry NX, by two callers at once.                      *)
(***************************************************************************)
MAX_RETRY == 10
OtpTasks == {"o1", "o2"}
OtpCodes == {"0000-0001", "0000-0002"}
\* the user of each caller, and a user whose codes were stored before
OtpUser(g) == IF g = "o1" THEN "u1" ELSE "u2"
OtpEarlier == "u0"

IdleOtp == [pc |-> "idle", n |-> 0, sets |-> 0, res |-> "", code |-> "", live |-> FALSE]

\* a SET without NX
SetAlways(stored) == TRUE

\* Cache::Set(key, value, ex, nx = true): redis sets the key, and replies
\* true, only when it does not exist
SetNx(stored) == stored = ""

notOtp == <<engineVars, rouletteVars, gatewayVars, authVars, egressVars, rlVars,
            pumpVars, streamVars, dbVars, loadVars, lateVars>>

\* handle_gen_otp is called
OtpGen(g) ==
    /\ otask[g].pc = "idle"
    /\ otask' = [otask EXCEPT ![g].pc = "try"]
    /\ UNCHANGED <<otp, notOtp>>

\* one iteration of `for _ in 0..MAX_RETRY`: a random code c, Cache::Set,
\* and the match on its reply: Ok(Bool(true)) returns the code,
\* Ok(Bool(false)) and Err continue
OtpTry(g, c, err) ==
    /\ otask[g].pc = "try"
    /\ otask[g].n < MAX_RETRY
    /\ IF ~err /\ SetNx(otp[c])
       THEN /\ otp' = [otp EXCEPT ![c] = OtpUser(g)]
            /\ otask' = [h \in OtpTasks |->
                 IF h = g
                 THEN [otask[g] EXCEPT !.n = @ + 1, !.sets = @ + 1, !.pc = "done",
                                       !.res = "Ok", !.code = c, !.live = TRUE]
                 ELSE otask[h]]
       ELSE /\ otask' = [otask EXCEPT ![g].n = @ + 1]
            /\ UNCHANGED otp
    /\ UNCHANGED notOtp

\* the loop ends: Err("failed to generate unique otp")
OtpGiveUp(g) ==
    /\ otask[g].pc = "try"
    /\ otask[g].n = MAX_RETRY
    /\ otask' = [otask EXCEPT ![g].pc = "done", ![g].res = "Err"]
    /\ UNCHANGED <<otp, notOtp>>

\* the key of code c expires, or handle_recv_otp takes it with GETDEL
OtpExpire(c) ==
    /\ otp[c] # ""
    /\ otp' = [otp EXCEPT ![c] = ""]
    /\ otask' = [h \in OtpTasks |->
                   IF otask[h].code = c THEN [otask[h] EXCEPT !.live = FALSE]
                   ELSE otask[h]]
    /\ UNCHANGED notOtp

InitOtp ==
    /\ otp = [c \in OtpCodes |-> ""]
    /\ otask = [g \in OtpTasks |-> IdleOtp]

OtpNext ==
    \/ \E g \in OtpTasks : OtpGen(g)
    \/ \E g \in OtpTasks, c \in OtpCodes, err \in BOOLEAN : OtpTry(g, c, err)
    \/ \E g \in OtpTasks : OtpGiveUp(g)
    \/ \E c \in OtpCodes : OtpExpire(c)

(***************************************************************************)
(* The handler futures of one ChatEvent.  Server::filter_chat awaits       *)
(* join_all over the filters' chat futures; Server::chat awaits it, and    *)
(* then, when no filter tripped, join_all over the commands' and timers'.  *)
(* A future is polled for the first time (it starts) and later completes.  *)
(***************************************************************************)
\* everything the model had before the variables of this part
earlyVars == <<engineVars, rouletteVars, gatewayVars, authVars, egressVars, rlVars,
               pumpVars, streamVars, dbVars, loadVars, otpVars>>

notHs == <<earlyVars, incrVars, levVars, rdVars, rxVars>>

IdleEvent == [pc |-> "idle", fst |-> <<>>, cst |-> <<>>, tripped |-> FALSE]

\* A join that is ready whatever its futures' states
JoinAny(st) == TRUE

\* JoinAll is ready when every one of its futures has completed
JoinAll(st) == \A i \in 1..Len(st) : st[i] = "done"

\* one more poll of future i: it starts, or it completes
Poll(st, i) == [st EXCEPT ![i] = IF @ = "new" THEN "run" ELSE "done"]

\* Server::chat is called: filter_chat reads self.filters and makes the
\* filters' futures
EvBegin ==
    /\ hs.pc = "idle"
    /\ hs' = [IdleEvent EXCEPT !.pc = "filters",
                               !.fst = [i \in 1..Len(filters) |-> "new"]]
    /\ UNCHANGED notHs

EvFilterPoll(i) ==
    /\ hs.pc = "filters"
    /\ hs.fst[i] # "done"
    /\ hs' = [hs EXCEPT !.fst = Poll(@, i)]
    /\ UNCHANGED notHs

\* join_all(filters) is ready; filter_chat folds the results, and
\* Server::chat either sends the ModAction or reads self.timers and
\* self.commands and makes their futures
EvFiltersJoined(trip) ==
    /\ hs.pc = "filters"
    /\ JoinAll(hs.fst)
    /\ trip => Len(hs.fst) > 0
    /\ hs' = IF trip
             THEN [hs EXCEPT !.pc = "fanout", !.tripped = TRUE]
             ELSE [hs EXCEPT !.pc = "cmds",
                             !.cst = [j \in 1..(Len(commands) + Len(timers)) |-> "new"]]
    /\ UNCHANGED notHs

EvCmdPoll(j) ==
    /\ hs.pc = "cmds"
    /\ hs.cst[j] # "done"
    /\ hs' = [hs EXCEPT !.cst = Poll(@, j)]
    /\ UNCHANGED notHs

\* join_all(commands.chain(timers)) is ready, and autocorrect has run
EvCmdsJoined ==
    /\ hs.pc = "cmds"
    /\ JoinAll(hs.cst)
    /\ hs' = [hs EXCEPT !.pc = "fanout"]
    /\ UNCHANGED notHs

\* the Chat is sent to the operator sessions and Server::chat returns
EvFanout ==
    /\ hs.pc = "fanout"
    /\ hs' = [hs EXCEPT !.pc = "done"]
    /\ UNCHANGED notHs

InitHs == hs = IdleEvent

EvNext ==
    \/ EvBegin
    \/ \E i \in 1..Len(hs.fst) : EvFilterPoll(i)
    \/ \E trip \in BOOLEAN : EvFiltersJoined(trip)
    \/ \E j \in 1..Len(hs.cst) : EvCmdPoll(j)
    \/ EvCmdsJoined
    \/ EvFanout

(***************************************************************************)
(* Cache::Increment(key, delta, expire): a pipeline of INCR and, when      *)
(* expire > 0, EXPIRE key expire.  The auth handler counts the messages    *)
(* of a peer with the burst window as expire, a Timer counts chats with 0. *)
(***************************************************************************)
IncrKeys == {"loginrl", "count"}

\* the expire argument of the callers of each key
IncrExpire(k) == IF k = "loginrl" THEN MAX_AUTH_RATELIMIT_BURST ELSE 0

\* a key without expiry
NoExpiry == -1

\* no key: val 0.  A key holds its value, the time of the increment that
\* made it, and the time it expires at.
NoKey == [val |-> 0, born |-> 0, exp |-> NoExpiry]

notIncr == <<earlyVars, hsVars, levVars, rdVars, rxVars>>

\* INCR makes the key when there is none and leaves a living key's expiry
\* alone; EXPIRE sets the expiry from now
CacheIncrement(k) ==
    /\ ctr[k].val < MaxIncrs
    /\ ctr' = [ctr EXCEPT ![k] =
                 [val  |-> ctr[k].val + 1,
                  born |-> IF ctr[k].val = 0 THEN now ELSE ctr[k].born,
                  exp  |-> IF IncrExpire(k) > 0 THEN now + IncrExpire(k)
                           ELSE ctr[k].exp]]
    /\ UNCHANGED <<now, notIncr>>

\* a second passes; redis removes the keys whose expiry is reached
ClockTick ==
    /\ now < MaxTime
    /\ now' = now + 1
    /\ ctr' = [k \in IncrKeys |->
                 IF ctr[k].val > 0 /\ ctr[k].exp = now + 1 THEN NoKey ELSE ctr[k]]
    /\ UNCHANGED notIncr

InitIncr ==
    /\ now = 0
    /\ ctr = [k \in IncrKeys |-> NoKey]

IncrNext ==
    \/ \E k \in IncrKeys : CacheIncrement(k)
    \/ ClockTick

(***************************************************************************)
(* Levenshtein::run for the chats of one user under one filter: the lock   *)
(* call, the inner section (SetGet of the previous message, Increment or   *)
(* Delete of the trip count) and the unlock, each cache or lock call one   *)
(* step.  Every chat has its own task.                                     *)
(***************************************************************************)
LevTasks == {"v1", "v2"}
LevMsgs == {"a", "b"}

\* the filter's min_times
LEV_MIN_TIMES == 1

\* due: whether the message, in the order of the swaps, brought the streak
\* above min_times
IdleLev == [pc |-> "idle", msg |-> "", got |-> FALSE, prev |-> "", trip |-> FALSE,
            due |-> FALSE]

notLev == <<earlyVars, hsVars, incrVars, rdVars, rxVars>>

\* Whether run goes on to the inner section after ctx.lock.lock(..).await?:
\* the `?` returns on an error only, and the bool is dropped
LevProceeds(acquired) == TRUE

\* the distance of two messages is below min_dist (1: they are the same)
LevSimilar(prev, msg) == prev = msg

\* Levenshtein::chat passed can_run and run found the filter cache filled
LevRun(t, msg) ==
    /\ vtask[t].pc \in {"idle", "done"}
    /\ nlev < MaxLevChats
    /\ nlev' = nlev + 1
    /\ vtask' = [vtask EXCEPT ![t] = [IdleLev EXCEPT !.pc = "lock", !.msg = msg]]
    /\ UNCHANGED <<lev_lock, lev_prev, lev_count, lev_streak, notLev>>

\* ctx.lock.lock(&lock_name, 5).await?
LevLock(t) ==
    /\ vtask[t].pc = "lock"
    /\ lev_lock' = TRUE
    /\ vtask' = [vtask EXCEPT ![t].got = ~lev_lock,
                              ![t].pc = IF LevProceeds(~lev_lock) THEN "setget" ELSE "done"]
    /\ UNCHANGED <<lev_prev, lev_count, nlev, lev_streak, notLev>>

\* the streak after a message that is, or is not, similar to the one before
StreakAfter(streak, similar) == IF similar THEN streak + 1 ELSE 0

\* inner: Cache::SetGet(msg_key, msg, burst_rate) and the edit distance; no
\* previous message is a nil reply, `_ => return None`
LevSetGet(t) ==
    /\ vtask[t].pc = "setget"
    /\ lev_prev' = vtask[t].msg
    /\ LET similar == lev_prev # "" /\ LevSimilar(lev_prev, vtask[t].msg)
           due == StreakAfter(lev_streak, similar) > LEV_MIN_TIMES
       IN /\ vtask' = [vtask EXCEPT ![t].prev = lev_prev, ![t].due = due,
                                    ![t].pc = IF lev_prev = "" THEN "unlock"
                                              ELSE IF similar THEN "incr"
                                              ELSE "delete"]
          /\ lev_streak' = IF due THEN 0 ELSE StreakAfter(lev_streak, similar)
    /\ UNCHANGED <<lev_lock, lev_count, nlev, notLev>>

\* inner: Cache::Increment(count_key, 1, burst_rate) and the check of the
\* trip count
LevIncrement(t) ==
    /\ vtask[t].pc = "incr"
    /\ lev_count' = lev_count + 1
    /\ vtask' = [vtask EXCEPT ![t].pc = IF lev_count + 1 > LEV_MIN_TIMES
                                        THEN "reset" ELSE "unlock"]
    /\ UNCHANGED <<lev_lock, lev_prev, nlev, lev_streak, notLev>>

\* inner: Cache::Delete(count_key), the streak being broken or the filter
\* having tripped
LevDelete(t) ==
    /\ vtask[t].pc \in {"delete", "reset"}
    /\ lev_count' = 0
    /\ vtask' = [vtask EXCEPT ![t].pc = "unlock", ![t].trip = (vtask[t].pc = "reset")]
    /\ UNCHANGED <<lev_lock, lev_prev, nlev, lev_streak, notLev>>

\* ctx.lock.unlock(&lock_name).await?
LevUnlock(t) ==
    /\ vtask[t].pc = "unlock"
    /\ lev_lock' = FALSE
    /\ vtask' = [vtask EXCEPT ![t].pc = "done"]
    /\ UNCHANGED <<lev_prev, lev_count, nlev, lev_streak, notLev>>

\* the lock key expires (EX 5)
LevLockExpire ==
    /\ lev_lock
    /\ lev_lock' = FALSE
    /\ UNCHANGED <<lev_prev, lev_count, vtask, nlev, lev_streak, notLev>>

InitLev ==
    /\ lev_lock = FALSE
    /\ lev_prev = ""
    /\ lev_count = 0
    /\ vtask = [t \in LevTasks |-> IdleLev]
    /\ nlev = 0
    /\ lev_streak = 0

LevNext ==
    \/ \E t \in LevTasks, msg \in LevMsgs : LevRun(t, msg)
    \/ \E t \in LevTasks : LevLock(t)
    \/ \E t \in LevTasks : LevSetGet(t)
    \/ \E t \in LevTasks : LevIncrement(t)
    \/ \E t \in LevTasks : LevDelete(t)
    \/ \E t \in LevTasks : LevUnlock(t)
    \/ LevLockExpire

(***************************************************************************)
(* RussianRoulette with the active key's TTL: run locks the active key    *)
(* for duration + 5 seconds and spawns handle_end when it got it;         *)
(* handle_end sleeps duration, reads the members hash, settles the        *)
(* heisters and deletes both keys. Several resolvers can be alive.        *)
(***************************************************************************)
notRd == <<earlyVars, hsVars, incrVars, levVars, rxVars>>

RdUsers == {"a", "b"}

\* rd.active: the resolver whose run set the active key (0: key not set)
IdleRound == [active |-> 0, hash |-> {}, res |-> <<>>, n |-> 0]

\* RussianRoulette::run of user u, the cache and lock calls succeeding:
\* HashSet NX (a user already in the hash ends in unreachable!()), then
\* lock(active_key, duration + 5) and the spawn of handle_end
RdRun(u) ==
    /\ rd.n < MaxRuns
    /\ IF u \in rd.hash
       THEN rd' = [rd EXCEPT !.n = @ + 1]
       ELSE IF rd.active = 0
       THEN rd' = [rd EXCEPT !.n = @ + 1, !.hash = @ \cup {u},
                             !.active = Len(rd.res) + 1,
                             !.res = Append(@, [pc |-> "sleep", read |-> {}])]
       ELSE rd' = [rd EXCEPT !.n = @ + 1, !.hash = @ \cup {u}]
    /\ UNCHANGED notRd

\* handle_end after sleep(duration): Cache::HashGetAll(member_key)
RdWake(i) ==
    /\ rd.res[i].pc = "sleep"
    /\ rd' = [rd EXCEPT !.res[i] = [pc |-> "heister", read |-> rd.hash]]
    /\ UNCHANGED notRd

\* handle_end after join_all(handle_heister): unlock(member_key) and
\* unlock(active_key), both DEL, and the summary Message
RdEnd(i) ==
    /\ rd.res[i].pc = "heister"
    /\ rd' = [rd EXCEPT !.res[i].pc = "done", !.hash = {}, !.active = 0]
    /\ UNCHANGED notRd

\* the active key's TTL runs out, 5 seconds after the resolver of its
\* setter woke up and while that resolver is settling the heisters
RdExpire ==
    /\ rd.active # 0
    /\ rd.res[rd.active].pc = "heister"
    /\ rd' = [rd EXCEPT !.active = 0]
    /\ UNCHANGED notRd

InitRd == rd = IdleRound

RdNext ==
    \/ \E u \in RdUsers : RdRun(u)
    \/ \E i \in 1..Len(rd.res) : RdWake(i)
    \/ \E i \in 1..Len(rd.res) : RdEnd(i)
    \/ RdExpire

(***************************************************************************)
(* Link::handle_recv_otp: a chat user presents a one-time code; the code  *)
(* is taken from the cache with GETDEL and the link is upserted.          *)
(***************************************************************************)
\* everything but the one-time codes and their redeemers
notRx == <<engineVars, rouletteVars, gatewayVars, authVars, egressVars, rlVars,
           pumpVars, streamVars, dbVars, loadVars, otask,
           hsVars, incrVars, levVars, rdVars>>

Redeemers == {"r1", "r2"}

IdleRedeem == [pc |-> "idle", code |-> "", got |-> "", failed |-> FALSE, res |-> "", n |-> 0]

\* a GET in the place of GETDEL: the key stays
GetKeeps(stored) == stored

\* Cache::GetDel(key): what is stored under the key after GETDEL
GetDel(stored) == ""

\* handle_recv_otp is called by redeemer r with code c
RedeemRecv(r, c) ==
    /\ rx.t[r].pc \in {"idle", "done"}
    /\ rx.t[r].n < MaxRedeems
    /\ rx' = [rx EXCEPT !.t[r] = [IdleRedeem EXCEPT !.pc = "getdel", !.code = c,
                                                   !.n = rx.t[r].n + 1]]
    /\ UNCHANGED <<otp, notRx>>

\* Cache::GetDel(otp_key) and the match on its reply: a stored id goes on
\* to the link; no key is a TypeError, Err(LinkError::InvalidCode); any
\* other error of the cache is returned as it is
RedeemGetDel(r, err) ==
    /\ rx.t[r].pc = "getdel"
    /\ LET c == rx.t[r].code
       IN IF err
          THEN /\ rx' = [rx EXCEPT !.t[r].pc = "done", !.t[r].failed = TRUE,
                                   !.t[r].res = "Err"]
               /\ UNCHANGED otp
          ELSE IF otp[c] = ""
          THEN /\ rx' = [rx EXCEPT !.t[r].pc = "done", !.t[r].res = "InvalidCode"]
               /\ UNCHANGED otp
          ELSE /\ rx' = [rx EXCEPT !.t[r].pc = "link", !.t[r].got = otp[c],
                                   !.taken[c] = @ + 1]
               /\ otp' = [otp EXCEPT ![c] = GetDel(@)]
    /\ UNCHANGED notRx

\* Db::Link(LinkOp { discord_id, platform_id }): the upsert, or its error
RedeemLink(r, err) ==
    /\ rx.t[r].pc = "link"
    /\ IF err
       THEN rx' = [rx EXCEPT !.t[r].pc = "done", !.t[r].failed = TRUE, !.t[r].res = "Err"]
       ELSE rx' = [rx EXCEPT !.t[r].pc = "done", !.t[r].res = "Ok",
                             !.links = Append(@, [by |-> r, id |-> rx.t[r].got,
                                                  code |-> rx.t[r].code])]
    /\ UNCHANGED <<otp, notRx>>

\* the key of code c reaches its expiry
RedeemExpire(c) ==
    /\ otp[c] # ""
    /\ otp' = [otp EXCEPT ![c] = ""]
    /\ UNCHANGED <<rx, notRx>>

\* rx.taken: how many calls were given the id stored under each code
InitRx == rx = [t |-> [r \in Redeemers |-> IdleRedeem], links |-> <<>>,
                taken |-> [c \in OtpCodes |-> 0]]

RedeemNext ==
    \/ \E r \in Redeemers, c \in OtpCodes : RedeemRecv(r, c)
    \/ \E r \in Redeemers, err \in BOOLEAN : RedeemGetDel(r, err)
    \/ \E r \in Redeemers, err \in BOOLEAN : RedeemLink(r, err)
    \/ \E c \in OtpCodes : RedeemExpire(c)

(***************************************************************************)
(* The chat pipeline alone, on either configuration.                       *)
(***************************************************************************)
InitLate == InitHs /\ InitIncr /\ InitLev /\ InitRd /\ InitRx

InitMore == InitLoad /\ InitOtp /\ InitLate

InitCmd == InitRatelimit /\ InitStream /\ InitDb /\ InitMore

InitSide == InitRoulette /\ InitGateway /\ InitAuth /\ InitEgress /\ InitCmd

InitChat == (\E cfg \in ChatConfigs : InitEngine(cfg)) /\ InitSide

NextChat == ChatNext(UserPerms, AllOutcomes, AllResults)

SpecChat == InitChat /\ [][NextChat]_vars

(***************************************************************************)
(* The engine: a ChatEvent and a DumpConfig processed while one handler    *)
(* installs configurations.                                                *)
(***************************************************************************)
Init == InitEngine(ConfigA) /\ InitSide

Next ==
    \/ InstallNext("h1", Origins, SavedAll)
    \/ ChatNext({NONE}, QuietOutcomes, QuietResults)
    \/ DumpNext

Spec == Init /\ [][Next]_vars

(***************************************************************************)
(* The two sources of ModAction: the chat pipeline and the resolver of     *)
(* RussianRoulette.                                                        *)
(***************************************************************************)
NextModAction ==
    \/ ChatNext(UserPerms, AllOutcomes, QuietResults)
    \/ RouletteNext({"ok"})

SpecModAction == InitChat /\ [][NextModAction]_vars

(***************************************************************************)
(* Properties of the chat pipeline.                                        *)
(***************************************************************************)
\* The ModActions one ChatEvent's handler has sent
ChatModActions == {k \in 1..Len(ctask.sent) : ctask.sent[k].payload.t = "ModAction"}
\* The filters that returned Filtered for it
FilteredIdx == {i \in 1..Len(ctask.filtered) : ctask.filtered[i].t = "Filtered"}
\* The place of an action in ModAction's ordering: the variant, then the seconds
Rank(a) == a[1] * 1000 + a[2]
Arbitrated == ctask.pc \in {"read_rules", "run_cmds", "fanout", "done"}

\* C1 (as the specification states it): a handler never works with rule
\* sequences of two different configurations: the filters, commands and
\* timers a ChatEvent handler runs, and the three sequences a DumpConfig
\* handler returns, are those of one installed configuration.
C1_OneConfiguration ==
    /\ ctask.pc = "run_cmds" =>
         \E cfg \in Configs : /\ ctask.filters = cfg.filters
                              /\ ctask.commands = cfg.commands
                              /\ ctask.timers = cfg.timers
    /\ dtask.pc \in {"send", "done"} =>
         \E cfg \in Configs : /\ dtask.filters = cfg.filters
                              /\ dtask.commands = cfg.commands
                              /\ dtask.timers = cfg.timers

\* C2: the action of an emitted ModAction is the greatest, in ModAction's
\* ordering, of the actions of all Filtered results of that chat, and its
\* reason is the name of the earliest filter that returned that action.
C2_MostSevereEarliest ==
    \A k \in ChatModActions :
      LET pl == ctask.sent[k].payload
      IN /\ \A i \in FilteredIdx : Rank(ctask.filtered[i].action) <= Rank(pl.action)
         /\ \E i \in FilteredIdx :
              /\ ctask.filtered[i].action = pl.action
              /\ ctask.filters[i].name = pl.reason
              /\ \A j \in FilteredIdx : j < i => ctask.filtered[j].action # pl.action

\* a chat where a Warn filter and two filters of the same Timeout tripped,
\* and the ModAction names the first of the two
C2_Witness ==
    /\ ctask.pc = "done"
    /\ Cardinality(FilteredIdx) = 3
    /\ \E i, j \in FilteredIdx :
         /\ i < j
         /\ ctask.filtered[i].action = ctask.filtered[j].action
         /\ \E k \in ChatModActions : /\ ctask.sent[k].payload.reason = ctask.filters[i].name
                                      /\ ctask.sent[k].payload.action = MA_Timeout(60)
    /\ \E i \in FilteredIdx : ctask.filtered[i].action = MA_Warn

\* C3 (as the specification states it): a ChatEvent yields at most one
\* ModAction, and none when no filter returned Filtered(a) with a > None.
C3_NoneWithoutSevere ==
    Arbitrated =>
      /\ Cardinality(ChatModActions) <= 1
      /\ (\A i \in FilteredIdx : Rank(ctask.filtered[i].action) <= Rank(MA_None))
           => ChatModActions = {}

\* C3 (amended): a ChatEvent yields at most one ModAction, and none exactly
\* when no filter returned Filtered (with any action, None included) or the
\* user's permissions are Mod or above.
C3_AtMostOneModAction ==
    Arbitrated =>
      /\ Cardinality(ChatModActions) <= 1
      /\ ChatModActions = {} <=> (FilteredIdx = {} \/ ctask.perms >= MOD)

\* a chat whose only tripped filter carries the action None, and whose
\* ModAction went out
C3_Witness ==
    /\ ctask.pc = "done"
    /\ FilteredIdx # {}
    /\ \A i \in FilteredIdx : ctask.filtered[i].action = MA_None
    /\ Cardinality(ChatModActions) = 1

\* C4: a ModAction, from the chat pipeline or from RussianRoulette's
\* resolver, is emitted only for a user whose permissions are below Mod.
C4_OnlyBelowMod ==
    \A k \in 1..Len(msg_out) :
      msg_out[k].payload.t = "ModAction" => msg_out[k].payload.perms < MOD

\* a moderator tripped a filter and a moderator lost the game, and the only
\* ModActions sent are one of the pipeline and one of the resolver
C4_Witness ==
    /\ ctask.pc = "done" /\ ctask.perms >= MOD /\ ctask.tripped
    /\ rtask.pc = "heister" /\ rtask.i > Len(rtask.heisters)
    /\ \E i \in 1..Len(rtask.heisters) :
         rtask.heisters[i].perms >= MOD /\ ~rtask.fates[i]
    /\ \E k \in 1..Len(msg_out) : /\ msg_out[k].payload.t = "ModAction"
                                  /\ msg_out[k].payload.reason = "RussianRoulette"

(***************************************************************************)
(* The gateway with the auth handler.                                      *)
(***************************************************************************)
SpecGateway == Init /\ [][GatewayNext]_vars

(***************************************************************************)
(* The auth handler alone.                                                 *)
(***************************************************************************)
SpecAuth == Init /\ [][AuthNext]_vars

\* C5: a connection is in the session map, and a frame of it is in the
\* ingress queue, only after it was answered AuthSuccess; until then the
\* only frames of it that were handled are auth messages, and its task is
\* still in Server::auth (or gone).
C5_AuthBeforeSession ==
    /\ \A p \in clients : conn[p].answered
    /\ \A k \in 1..Len(msg_in) : conn[msg_in[k].loc.addr].answered
    /\ \A p \in Peers :
         /\ conn[p].handled \subseteq {"ListUsers", "RequestCode", "Login"}
         /\ ~conn[p].answered => conn[p].st \in {"none", "auth", "closed"}

\* one peer logged in and a frame of it reached the ingress queue, while
\* the other, its Login refused, is still held in Server::auth
C5_Witness ==
    \E p, q \in Peers :
       /\ p \in clients /\ \E k \in 1..Len(msg_in) : msg_in[k].loc.addr = p
       /\ q # p /\ conn[q].st = "auth" /\ "Login" \in conn[q].handled
       /\ q \notin clients

LoginCall == last.ip # "" /\ last.msg.t = "Login"

\* C6 (as the specification states it): Login answers CodeExpired if no
\* code is stored for the user, AuthSuccess with the counter cleared if the
\* stored code is the candidate, and otherwise AuthFail, or Ratelimited
\* when the counter is at the ceiling.
C6_LoginAsStated ==
    LoginCall =>
      /\ last.stored = "" => last.resp = A_CodeExpired
      /\ (last.stored # "" /\ last.stored = last.msg.code) =>
           (last.resp = A_AuthSuccess(last.msg.user) /\ last.rl_after = 0)
      /\ (last.stored # "" /\ last.stored # last.msg.code) =>
           last.resp = (IF last.after >= MAX_AUTH_RATELIMIT_COUNT
                        THEN A_Ratelimited ELSE A_AuthFail)

\* C6 (amended): a Login that takes the counter above the ceiling is
\* answered Ratelimited whatever its code; otherwise a Login naming no
\* configured user is answered AuthFail; otherwise it is answered
\* CodeExpired if no code is stored, AuthSuccess with the counter cleared
\* if the stored code is the candidate, and if it differs AuthFail, or
\* Ratelimited when the counter is exactly at the ceiling.
C6_LoginAnswers ==
    LoginCall =>
      IF last.after > MAX_AUTH_RATELIMIT_COUNT
        THEN last.resp = A_Ratelimited /\ last.rl_after = last.after
      ELSE IF last.msg.user \notin AuthUsers
        THEN last.resp = A_AuthFail /\ last.rl_after = last.after
      ELSE IF last.stored = ""
        THEN last.resp = A_CodeExpired /\ last.rl_after = last.after
      ELSE IF last.stored = last.msg.code
        THEN last.resp = A_AuthSuccess(last.msg.user) /\ last.rl_after = 0
      ELSE /\ last.rl_after = last.after
           /\ last.resp = (IF last.after = MAX_AUTH_RATELIMIT_COUNT
                           THEN A_Ratelimited ELSE A_AuthFail)

\* a Login with the stored code, refused because the counter is above the
\* ceiling
C6_Witness ==
    /\ LoginCall
    /\ last.stored # "" /\ last.stored = last.msg.code
    /\ last.resp = A_Ratelimited

\* C7: every auth message increments the counter of its IP; a message that
\* finds the counter above the ceiling is answered Ratelimited and nothing
\* of it is done (no code stored, no ping sent, the counter not cleared);
\* and the incorrect Login that is the (ceiling + 1)th since the counter's
\* key was made is answered Ratelimited.
C7_Ratelimit ==
    last.ip # "" =>
      /\ last.after = last.before + 1
      /\ last.resp.t # "AuthSuccess" => last.rl_after = last.after
      /\ last.after > MAX_AUTH_RATELIMIT_COUNT =>
           /\ last.resp = A_Ratelimited
           /\ ~last.pinged
           /\ last.code_after = last.stored
           /\ last.rl_after = last.after
      /\ (last.incorrect /\ last.wrongs >= MAX_AUTH_RATELIMIT_COUNT + 1) =>
           last.resp = A_Ratelimited

\* the (ceiling + 1)th incorrect Login in a row, answered Ratelimited
C7_Witness ==
    /\ last.ip # ""
    /\ last.incorrect
    /\ last.wrongs = MAX_AUTH_RATELIMIT_COUNT + 1
    /\ last.after = MAX_AUTH_RATELIMIT_COUNT + 1
    /\ last.resp = A_Ratelimited

(***************************************************************************)
(* The installers of two instances under the lock and its TTL.             *)
(***************************************************************************)
NextLock ==
    \/ InstallNext("h1", Origins, SavedAll)
    \/ InstallNext("h2", Origins, SavedAll)
    \/ ConfigLockExpire

SpecLock == Init /\ [][NextLock]_vars

(***************************************************************************)
(* The background tasks while configurations are installed.                *)
(***************************************************************************)
NextTasks ==
    \/ InstallNext("h1", {Pubsub}, SavedAll)
    \/ TaskNext

SpecTasks == Init /\ [][NextTasks]_vars

\* C9 (as the specification states it): at most one ConfigDump handler is
\* between acquiring the lock and releasing it at any time.
C9_MutualExclusion == Cardinality({h \in Installers : InCritical(h)}) <= 1

\* C10 (as the specification states it): after its channel fired, a task
\* of the previous configuration emits no Message, resets no counter and
\* runs no sweep.
C10_NothingAfterCancel ==
    \A i \in 1..Len(tasks) :
      tasks[i].late_reset = 0 /\ tasks[i].late_send = 0 /\ tasks[i].late_sweep = 0

\* C10 (amended): a task asleep when its channel fired does nothing more; a
\* task past its check at that moment ends the iteration it is in (a
\* Timer: at most one reset of its counter and one Message; a Log task:
\* one sweep) and returns at its next wake.
C10_OneIterationAfterCancel ==
    \A i \in 1..Len(tasks) :
      LET t == tasks[i]
      IN /\ t.late_reset <= 1 /\ t.late_send <= 1 /\ t.late_sweep <= 1
         /\ t.at_fire = "sleep" =>
              t.late_reset = 0 /\ t.late_send = 0 /\ t.late_sweep = 0
         /\ t.at_fire = "send" => t.late_reset = 0
         /\ t.at_fire = "sleep" => t.pc = "sleep"
         /\ t.at_fire # "" <=> t.chan \in chan_fired

\* a Timer of the previous configuration, past its check when the channel
\* fired, has since sent its Message (the last one emitted) and sleeps again
C10_Witness ==
    \E i \in 1..Len(tasks) :
       /\ tasks[i].kind = "Timer" /\ tasks[i].at_fire = "work"
       /\ tasks[i].late_send = 1 /\ tasks[i].pc = "sleep"
       /\ msg_out[Len(msg_out)].payload = P_Message(tasks[i].msg)

(***************************************************************************)
(* Installs and the egress, the operator's session p1 being logged in.     *)
(***************************************************************************)
InitSession ==
    /\ InitEngine(ConfigA) /\ InitRoulette /\ InitAuth /\ InitEgress
    /\ conn = [p \in Peers |->
                 IF p = "p1" THEN [st |-> "open", user |-> "alice", answered |-> TRUE,
                                   handled |-> {"RequestCode", "Login"}]
                 ELSE NoConn]
    /\ clients = {"p1"}
    /\ msg_in = <<>>
    /\ wpump = [p \in Peers |-> IF p = "p1" THEN RunningPump ELSE NoPump]
    /\ InitCmd

NextEgress ==
    \/ InstallNext("h1", Origins, SavedAll)
    \/ EgressNext

SpecEgress == InitSession /\ [][NextEgress]_vars

\* where a payload stands in a sequence of responses or messages (0: nowhere)
Places(q, pl) == {k \in 1..Len(q) : q[k].payload = pl}
Emitted(pl) == Places(msg_out, pl)
Before(q, a, b) == \A j \in Places(q, b) : \E i \in Places(q, a) : i < j

\* what both statements of C8 say of the emission: one ConfigSaved, to the
\* origin, then one ConfigChanged, to Broadcast
EmittedOnceInOrder ==
    /\ \A id \in 1..ninstalls :
         /\ Cardinality(Emitted(P_ConfigSaved(id))) <= 1
         /\ Cardinality(Emitted(P_ConfigChanged(id))) <= 1
         /\ Before(msg_out, P_ConfigSaved(id), P_ConfigChanged(id))
         /\ \A k \in Emitted(P_ConfigChanged(id)) : msg_out[k].loc = Broadcast
    /\ \A h \in Installers :
         /\ inst[h].pc \in {"changed", "unlock"} =>
              \E k \in Emitted(P_ConfigSaved(inst[h].id)) : msg_out[k].loc = inst[h].loc
         /\ inst[h].pc = "unlock" => Emitted(P_ConfigChanged(inst[h].id)) # {}
         /\ inst[h].pc \in {"lock", "tasks", "w_commands", "w_filters", "w_timers", "save",
                            "saved"} => Emitted(P_ConfigSaved(inst[h].id)) = {}

\* C8 (as the specification states it): a ConfigDump that got the lock is
\* answered by one ConfigSaved to its origin and one ConfigChanged to
\* Broadcast, and ConfigSaved is emitted and delivered before ConfigChanged:
\* on the redis channel and at a session, no ConfigChanged arrives before
\* the ConfigSaved of the same ConfigDump.
C8_DeliveredInOrder ==
    /\ EmittedOnceInOrder
    /\ \A id \in 1..ninstalls :
         /\ \A k \in Emitted(P_ConfigSaved(id)) :
              msg_out[k].loc = Pubsub =>
                Before(published, P_ConfigSaved(id), P_ConfigChanged(id))
         /\ \A p \in Peers : \A k \in Emitted(P_ConfigSaved(id)) :
              msg_out[k].loc = Websocket(p) =>
                Before(delivered[p], P_ConfigSaved(id), P_ConfigChanged(id))

\* C8 (amended): a ConfigDump that got the lock is answered by one
\* ConfigSaved to its origin and one ConfigChanged to Broadcast, emitted in
\* that order; the session the ConfigDump came from gets them in that
\* order (nothing is said of the order on the redis channel).
C8_EmittedInOrder ==
    /\ EmittedOnceInOrder
    /\ \A id \in 1..ninstalls :
         \A p \in Peers : \A k \in Emitted(P_ConfigSaved(id)) :
           msg_out[k].loc = Websocket(p) =>
             Before(delivered[p], P_ConfigSaved(id), P_ConfigChanged(id))

\* the ConfigDump of session p1 is answered; p1 has its ConfigSaved and
\* then its ConfigChanged, and the redis channel has the ConfigChanged
C8_Witness ==
    \E id \in 1..ninstalls :
       /\ \E k \in Emitted(P_ConfigSaved(id)) : msg_out[k].loc = Websocket("p1")
       /\ Places(delivered["p1"], P_ConfigSaved(id)) # {}
       /\ Places(delivered["p1"], P_ConfigChanged(id)) # {}
       /\ Places(published, P_ConfigChanged(id)) # {}


(***************************************************************************)
(* The command rate limiters, called by two handler tasks.                 *)
(***************************************************************************)
RlFns == {"ratelimit_global", "ratelimit_user", "update"}

NextRatelimit == RatelimitNext(RlFns)

SpecRatelimit == Init /\ [][NextRatelimit]_vars

\* the sequence s starts the sequence t
IsPrefix(s, t) == Len(s) <= Len(t) /\ \A i \in 1..Len(s) : s[i] = t[i]

\* a call of ratelimit_global with both rate limits configured, by a user below Mod
BothGuarded(r) ==
    /\ r.fn = "ratelimit_global" /\ r.rate > 0 /\ r.rate_user > 0
    /\ RlPerms[r.user] < MOD

\* C11: a call guarded by a global and a per-user lock tries the global key
\* first and the per-user key second, and when it returns rate-limited every
\* key it acquired is one its own unlock removed: a rate-limited call leaves
\* no lock of its own behind.
C11_GlobalReleased ==
    \A t \in RlTasks :
       BothGuarded(rcall[t]) =>
          /\ IsPrefix(rcall[t].tried, <<RateKey, RateUserKey[rcall[t].user]>>)
          /\ rcall[t].res = "Ratelimited" => rcall[t].got \subseteq rcall[t].freed

\* a call acquired the global key, failed on the per-user key that the other
\* task's earlier call holds, released the global key and returned rate-limited
C11_Witness ==
    \E t \in RlTasks :
       /\ BothGuarded(rcall[t])
       /\ rcall[t].res = "Ratelimited"
       /\ rcall[t].tried = <<RateKey, RateUserKey[rcall[t].user]>>
       /\ rcall[t].got = {RateKey} /\ rcall[t].freed = {RateKey}
       /\ RateKey \notin locks /\ RateUserKey[rcall[t].user] \in locks

\* the calls made for a user of permission Mod or above
ExemptCalls == {t \in RlTasks : rcall[t].pc # "idle" /\ RlPerms[rcall[t].user] >= MOD}

\* C12 as stated: for a user of permission Mod or above no lock is tried or
\* acquired and no call returns Ratelimited, whichever rate limit it is.
C12_NeverRatelimited ==
    \A t \in ExemptCalls :
       rcall[t].tried = <<>> /\ rcall[t].got = {} /\ rcall[t].res # "Ratelimited"

\* C12: ratelimit_user and ratelimit_global try and acquire no lock for a user
\* of permission Mod or above and never return rate-limited for them (the
\* update cooldown of Points and Hours is applied whatever the permission).
C12_CommandLimitsBypassed ==
    \A t \in ExemptCalls :
       rcall[t].fn \in {"ratelimit_global", "ratelimit_user"} =>
          rcall[t].tried = <<>> /\ rcall[t].got = {} /\ rcall[t].res \in {"", "Free"}

\* a Mod's call of ratelimit_global, both rate limits configured, returned
\* not rate-limited while another call held the global key
C12_Witness ==
    \E t \in ExemptCalls :
       /\ rcall[t].fn = "ratelimit_global" /\ rcall[t].rate > 0 /\ rcall[t].rate_user > 0
       /\ rcall[t].pc = "done" /\ rcall[t].res = "Free"
       /\ RateKey \in locks

\* The Autocorrect responses the ChatEvent handler has sent
ChatAutocorrects == {k \in 1..Len(ctask.sent) : ctask.sent[k].payload.t = "Autocorrect"}
\* The commands and timers have run
CmdsRan == ctask.pc \in {"fanout", "done"} /\ ~ctask.tripped
\* The prefixes of the Autocorrect results, in result order
RECURSIVE Prefixes(_)
Prefixes(res) ==
    IF res = <<>> THEN <<>>
    ELSE (IF Head(res).t = "Autocorrect" THEN <<Head(res).prefix>> ELSE <<>>)
         \o Prefixes(Tail(res))
\* s without the later occurrences of each of its elements
RECURSIVE Dedup(_)
Dedup(s) ==
    IF s = <<>> THEN <<>>
    ELSE LET d == Dedup(SubSeq(s, 1, Len(s) - 1))
             x == s[Len(s)]
         IN IF \E i \in 1..Len(d) : d[i] = x THEN d ELSE Append(d, x)

\* C13: when a command's chat handler returned Ok for the ChatEvent, at any
\* place of the result vector and whatever the number of Autocorrect results,
\* no Autocorrect response is emitted for that event.
C13_OkSuppresses ==
    (CmdsRan /\ \E i \in 1..Len(ctask.res) : ctask.res[i].t = "Ok")
       => ChatAutocorrects = {}

\* a chat whose first command returned Autocorrect and whose second returned
\* Ok, handled to its end
C13_Witness ==
    /\ ctask.pc = "done" /\ ~ctask.tripped
    /\ Len(ctask.res) >= 2
    /\ ctask.res[1].t = "Autocorrect" /\ ctask.res[2].t = "Ok"
    /\ ChatAutocorrects = {}

\* C14 (as the specification states it): the suggestion list of an emitted
\* Autocorrect is the sequence of the Autocorrect prefixes in command order
\* with duplicates removed.
C14_Deduplicated ==
    CmdsRan => \A k \in ChatAutocorrects :
                  ctask.sent[k].payload.sugg = Dedup(Prefixes(ctask.res))

\* C14 (amended): at most one Autocorrect is emitted for a chat, and its
\* suggestion list is the sequence of the Autocorrect prefixes in command
\* order, a prefix appearing once for every command that returned it.
C14_InCommandOrder ==
    CmdsRan =>
       /\ Cardinality(ChatAutocorrects) <= 1
       /\ \A k \in ChatAutocorrects :
             ctask.sent[k].payload.sugg = Prefixes(ctask.res)
       /\ (ChatAutocorrects # {}) <=>
             (Prefixes(ctask.res) # <<>> /\ \A i \in 1..Len(ctask.res) : ctask.res[i].t # "Ok")

\* an Autocorrect was emitted for a chat that three commands, the first and
\* the third of one prefix, answered with Autocorrect
C14_Witness ==
    /\ ctask.pc = "done"
    /\ \E k \in ChatAutocorrects :
          /\ Len(ctask.sent[k].payload.sugg) = 3
          /\ ctask.sent[k].payload.sugg[1] # ctask.sent[k].payload.sugg[2]
          /\ ctask.sent[k].payload.sugg[1] = ctask.sent[k].payload.sugg[3]
          /\ ctask.sent[k].payload.sugg[1] = ctask.commands[1].prefix

(***************************************************************************)
(* Responses to every kind of Location, routed while sessions leave.       *)
(***************************************************************************)
\* the two sessions are logged in, their pumps running
InitSessions ==
    /\ InitEngine(ConfigA) /\ InitRoulette /\ InitAuth /\ InitEgress /\ InitCmd
    /\ conn = [p \in Peers |-> [st |-> "open", user |-> "alice", answered |-> TRUE,
                                handled |-> {"RequestCode", "Login"}]]
    /\ clients = Peers
    /\ msg_in = <<>>
    /\ wpump = [p \in Peers |-> RunningPump]

NextRoute ==
    \/ \E loc \in RouteLocations : RespSend(loc)
    \/ EgressNext
    \/ \E p \in Peers : WsReadEnd(p)
    \/ \E p \in Peers : WsDisconnect(p)

SpecRoute == InitSessions /\ [][NextRoute]_vars

\* the sessions a Location selects
Selected(loc) ==
    CASE loc.loc = "Websocket" -> {loc.addr}
      [] loc.loc = "WebsocketsSome" -> {loc.addrs[i] : i \in 1..Len(loc.addrs)}
      [] loc.loc \in {"Websockets", "Broadcast"} -> Peers
      [] OTHER -> {}

\* q is p followed by copies of m
Extends(q, p, m) ==
    /\ Len(q) >= Len(p)
    /\ \A i \in 1..Len(q) : q[i] = IF i <= Len(p) THEN p[i] ELSE m

NextPumps ==
    \/ \E loc \in {Broadcast, WebsocketsAll} : RespSend(loc)
    \/ EgressNext
    \/ \E p \in Peers : WsReadEnd(p)
    \/ \E p \in Peers : WsDisconnect(p)
    \/ PumpNext

SpecPumps == InitSessions /\ [][NextPumps]_vars

\* C16: the session map keeps no entry whose write pump has exited: when a
\* session's write pump is out of its loop, its entry is gone from the map
\* or its removal is under way (its address is on the disconnect queue).
C16_NoEntryWithoutWriter ==
    \A p \in Peers :
       wpump[p].st = "exit" => (p \notin clients \/ conn[p].st = "closing")

(***************************************************************************)
(* Started events of one or two stream ids, handled by concurrent tasks.   *)
(***************************************************************************)
SpecStream == Init /\ [][StreamNext]_vars

\* the handlers whose SetGet redis has run
Swapped == {e \in StreamTasks : stask[e].pos > 0}
\* the id stored before the swap in place k
IdBefore(k) == IF k = 1 THEN "" ELSE swaps[k - 1]
Announcements == {k \in 1..Len(msg_out) : msg_out[k].payload.t = "StreamAnnouncement"}

\* C17: each handler gets as previous id the id stored by the swap just
\* before its own, and announces exactly when that id is absent or differs
\* from its own; so of the Started events of one id that follow each other
\* in swap order only the first announces, also when their handlers run
\* concurrently, and an event of another id announces again. A handler
\* that announces emits one StreamAnnouncement.
C17_AnnounceOnChange ==
    /\ \A e \in Swapped :
         /\ stask[e].prev = IdBefore(stask[e].pos)
         /\ stask[e].announce <=>
              (IdBefore(stask[e].pos) = "" \/ IdBefore(stask[e].pos) # stask[e].id)
    /\ \A e, f \in Swapped :
         (stask[f].pos = stask[e].pos + 1 /\ stask[f].id = stask[e].id) => ~stask[f].announce
    /\ Cardinality(Announcements) =
         Cardinality({e \in Swapped : stask[e].announce /\ stask[e].pc = "done"})

\* two Started events of vid1 and then one of vid2, handled concurrently:
\* the second handler of vid1 announced nothing, the handler of vid2 sent
\* its announcement before the first handler of vid1 sent its own, and in
\* the end there are two announcements
C17_Witness ==
    \E e, f, g \in StreamTasks :
       /\ stask[e].pos = 1 /\ stask[f].pos = 2 /\ stask[g].pos = 3
       /\ stask[e].id = "vid1" /\ stask[f].id = "vid1" /\ stask[g].id = "vid2"
       /\ stask[e].pc = "done" /\ stask[f].pc = "done" /\ stask[g].pc = "done"
       /\ ~stask[f].announce
       /\ Len(msg_out) = 2
       /\ msg_out[1].payload = P_StreamAnnouncement("vid2")
       /\ msg_out[2].payload = P_StreamAnnouncement("vid1")

(***************************************************************************)
(* RussianRoulette games whose cache and lock calls can fail.              *)
(***************************************************************************)
NextWager == RouletteNext(RunOutcomes)

SpecWager == Init /\ [][NextWager]_vars

\* C18: every debited wager is recorded in the members hash with its caller
\* or has been given back by refund, also when a user calls twice within a
\* game.
C18_MemberOrRefunded ==
    \A k \in 1..Len(wagers) : wagers[k].member \/ wagers[k].refunded

(***************************************************************************)
(* Give operations of two concurrent callers.                              *)
(***************************************************************************)
\* min and max as configured: small numbers, and a min of 2^31
GiveMins == {I64(0, 1), I64(0, 2), I64(1, 0)}
\* transfers between a and b with each min, a transfer of the whole balance
\* clamped to max, one that the source cannot pay, one to a name without a
\* row, a spend, and a deposit without a source
GiveOps ==
    {GiveOp(GiveSourceId("a"), GiveTargetUser("b"), 1, mn, I64(0, 3)) : mn \in GiveMins}
      \cup {GiveOp(GiveSourceId("b"), GiveTargetUser("a"), 1, I64(0, 1), I64(0, 3)),
            GiveOp(GiveSourceId("a"), GiveTargetUser("b"), -1, I64(0, 1), I64(0, 1)),
            GiveOp(GiveSourceId("b"), GiveTargetUser("a"), 2, I64(0, 1), I64(0, 3)),
            GiveOp(GiveSourceId("b"), GiveTargetName("x"), 1, I64(0, 1), I64(0, 3)),
            GiveOp(GiveSourceId("a"), GiveTargetSpend, 1, I64(0, 1), I64(0, 3)),
            GiveOp(GiveSourceNone, GiveTargetUser("b"), 1, I64(0, 0), I64(0, 0))}

NextGive == GiveNext(GiveOps)

SpecGive == Init /\ [][NextGive]_vars

\* the calls that have ended and had a source and a target row to change
EndedTransfers ==
    {g \in GiveTasks : /\ gtask[g].pc = "done"
                       /\ gtask[g].op.from.kind = "Id" /\ gtask[g].op.to.kind # "Spend"}
\* the change of balances of a transfer of `amount` from src to tgt
Transfer(src, tgt, amount) ==
    [u \in DbRows |-> (IF u = tgt THEN amount ELSE 0) - (IF u = src THEN amount ELSE 0)]

\* C19: a Give with a source and a target is all-or-nothing. A call that
\* returned Ok has debited its source and credited its target by its
\* effective amount; a call that failed (Deduct, Deposit, AmountBelowMin or
\* a database error) has changed no balance; and the balances are at every
\* moment the initial ones changed by the committed transactions only, so
\* that no source is debited without its target credited.
C19_AllOrNothing ==
    /\ points = [u \in DbRows |-> InitPoints[u] + committed[u]]
    /\ \A g \in EndedTransfers :
         IF gtask[g].res = "Ok"
         THEN gtask[g].applied = Transfer(gtask[g].op.from.id, gtask[g].op.to.id, gtask[g].amt)
         ELSE gtask[g].applied = ZeroDelta
    /\ \A g \in GiveTasks :
         gtask[g].op.to.id \in DbRows /\ gtask[g].op.from.kind = "Id"
            => gtask[g].applied["a"] + gtask[g].applied["b"] + gtask[g].applied["c"] = 0

\* a Give from a to b was committed, and a Give of the other caller, from b
\* to a name without a row, failed with Deposit after its deduction
C19_Witness ==
    \E g, h \in GiveTasks :
       /\ gtask[g].pc = "done" /\ gtask[g].res = "Ok"
       /\ gtask[g].op.from.id = "a" /\ gtask[g].op.to = GiveTargetUser("b")
       /\ gtask[g].applied = Transfer("a", "b", 1)
       /\ gtask[h].pc = "done" /\ gtask[h].res = "Deposit"
       /\ gtask[h].op.from.id = "b"
       /\ points = [a |-> 1, b |-> 2, c |-> 2]

\* C20: a Give whose resolved amount (the source's balance for amount -1,
\* else the amount) is below min ends with AmountBelowMin and changes no
\* balance.
C20_BelowMinFails ==
    \A g \in GiveTasks :
       (gtask[g].resolved # -2 /\ LessI64(gtask[g].resolved, gtask[g].op.min))
          => /\ gtask[g].pc = "done" /\ gtask[g].res = "AmountBelowMin"
             /\ gtask[g].applied = ZeroDelta

(***************************************************************************)
(* Lists of rule dumps, loaded from a file or received in a ConfigDump.    *)
(***************************************************************************)
TimerGood ==
    CmdDump("Timer", "t1",
            <<<<"enabled", V_Bool(TRUE)>>, <<"platforms", V_Platforms(4)>>,
              <<"interval", V_Number(60)>>, <<"jitter", V_Number(5)>>,
              <<"msg", V_String("hi")>>, <<"msg_count", V_Number(2)>>>>)
FilterGood ==
    CmdDump("Filter", "f1",
            <<<<"enabled", V_Bool(TRUE)>>, <<"apply_to", V_Permissions(2)>>,
              <<"platforms", V_Platforms(1)>>, <<"action", V_ModAction(MA_Timeout(60))>>,
              <<"user_contains", V_String("a")>>, <<"msg_contains", V_String("b")>>,
              <<"id_contains", V_String("c")>>>>)

\* values of every variant, in and out of the constraints and the types
TestValues ==
    {V_None, V_Bool(FALSE), V_Number(-1), V_Number(0), V_Number(30), V_String(""),
     V_Platforms(2), V_Platforms(16), V_Permissions(4), V_Permissions(32),
     V_ModAction(MA_Ban), V_ModAction(MA_Timeout(0))}

\* the dump d with its field i set to v, with two fields exchanged, without
\* its last field, and with one more pair
WithValue(d, i, v) == [d EXCEPT !.kv[i][2] = v]
Exchanged(d) ==
    [d EXCEPT !.kv = [i \in 1..Len(d.kv) |->
                        IF i = 1 THEN d.kv[2] ELSE IF i = 2 THEN d.kv[1] ELSE d.kv[i]]]
Shortened(d) == [d EXCEPT !.kv = SubSeq(d.kv, 1, Len(d.kv) - 1)]
WithPair(d, key, v) == [d EXCEPT !.kv = Append(d.kv, <<key, v>>)]

TestDumps ==
    {WithValue(d, i, v) : d \in {TimerGood, FilterGood}, i \in 1..6, v \in TestValues}
      \cup UNION {{d, Exchanged(d), Shortened(d), WithPair(d, "colour", V_String("red")),
                   WithPair(d, "platforms", V_Platforms(3)), [d EXCEPT !.kind = "Nope"],
                   [d EXCEPT !.kv = <<>>]} : d \in {TimerGood, FilterGood}}

\* one dump, or one dump after or before a good one
TestFiles ==
    {<<d>> : d \in TestDumps} \cup {<<TimerGood, d>> : d \in TestDumps}
      \cup {<<d, FilterGood>> : d \in TestDumps}

\* the file to load, or the message to deserialise
InitFiles ==
    /\ InitEngine(ConfigA) /\ InitRoulette /\ InitGateway /\ InitAuth /\ InitEgress
    /\ InitRatelimit /\ InitStream /\ InitDb /\ InitOtp /\ InitLate
    /\ \E ds \in TestFiles : ld = [NoLoad EXCEPT !.input = ds]

SpecLoad == InitFiles /\ [][LoadNext]_vars

\* the field of a constructor that skips a value failing the verification
\* or the conversion and keeps the default
FieldSkipped(f, kv) ==
    IF HasKey(kv, f.name) /\ Verify(Lookup(kv, f.name), f.constr)
                          /\ TryFrom(f.ty, Lookup(kv, f.name)).ok
    THEN TryFrom(f.ty, Lookup(kv, f.name)).x
    ELSE f.def
RuleSkipping(d) ==
    [kind |-> d.kind, name |-> d.name,
     fields |-> [i \in 1..Len(Schema(d.kind)) |-> FieldSkipped(Schema(d.kind)[i], d.kv)]]
KnownDumps(ds) == SelectSeq(ds, LAMBDA d : d.kind \in Kinds)

\* C21: a load or an install of a list of dumps does not fail, and makes a
\* rule of every dump of a known kind: each field has the value given for
\* it, or its default when that value violates the field's constraint (or
\* is not of its type, or is missing).
C21_FieldSkipped ==
    ld.op # "none" =>
       /\ ld.ok
       /\ ld.rules = [i \in 1..Len(KnownDumps(ld.input)) |->
                         RuleSkipping(KnownDumps(ld.input)[i])]

\* every value of the dump passes the verification of the field it names
Satisfies(d) ==
    /\ d.kind \in Kinds
    /\ \A i \in 1..Len(Schema(d.kind)) :
          HasKey(d.kv, Schema(d.kind)[i].name)
             => Verify(Lookup(d.kv, Schema(d.kind)[i].name), Schema(d.kind)[i].constr)

\* the dump names exactly the rule's fields, in declaration order, each
\* with a value its field's type converts from
Canonical(d) ==
    /\ d.kind \in Kinds
    /\ Len(d.kv) = Len(Schema(d.kind))
    /\ \A i \in 1..Len(d.kv) :
          /\ d.kv[i][1] = Schema(d.kind)[i].name
          /\ TryFrom(Schema(d.kind)[i].ty, d.kv[i][2]).ok

InitCodes ==
    /\ InitEngine(ConfigA) /\ InitRoulette /\ InitGateway /\ InitAuth /\ InitEgress
    /\ InitRatelimit /\ InitStream /\ InitDb /\ InitLoad /\ InitLate
    /\ otp \in [OtpCodes -> {"", OtpEarlier}]
    /\ otask = [g \in OtpTasks |-> IdleOtp]

SpecOtp == InitCodes /\ [][OtpNext]_vars

\* C23: a code that a caller got stays stored for that caller until its key
\* expires, so no other attempt overwrites it; a call makes at most
\* MAX_RETRY attempts; a call that returned a code stored exactly that one,
\* and a call that returned the error made MAX_RETRY attempts and stored
\* none.
C23_NoOverwrite ==
    \A g \in OtpTasks :
       /\ otask[g].n <= MAX_RETRY
       /\ otask[g].live => otp[otask[g].code] = OtpUser(g)
       /\ otask[g].res = "Ok" => otask[g].sets = 1
       /\ otask[g].res = "Err" => otask[g].n = MAX_RETRY /\ otask[g].sets = 0
       /\ otask[g].pc = "try" => otask[g].sets = 0
       /\ \A c \in OtpCodes : otp[c] = OtpUser(g) => otask[g].code = c /\ otask[g].live

\* one caller collided on a live code, retried and got the other code; the
\* other caller gave up after MAX_RETRY attempts, all codes being live
C23_Witness ==
    /\ otask["o1"].res = "Ok" /\ otask["o1"].n = 2 /\ otask["o1"].live
    /\ otask["o2"].res = "Err"
    /\ \A c \in OtpCodes : otp[c] # ""
    /\ \E c \in OtpCodes : otp[c] = OtpEarlier
(***************************************************************************)
(* The Chat fan-out of a ChatEvent, on the configurations of the chat      *)
(* pipeline and one with a RussianRoulette command.                        *)
(***************************************************************************)
InitChatAll == (\E cfg \in PanicConfigs : InitEngine(cfg)) /\ InitSide

NextChatAll == ChatNext(UserPerms, AllOutcomes, ResultsOf(PanicConfigs))

SpecChatAll == InitChatAll /\ [][NextChatAll]_vars

\* The places of ctask.sent holding the Chat sent to all operator sessions
ChatFanouts ==
    {k \in 1..Len(ctask.sent) :
        ctask.sent[k].payload.t = "Chat" /\ ctask.sent[k].loc = WebsocketsAll}

\* the task of the ChatEvent has ended, by returning or by unwinding
ChatEnded == ctask.pc \in {"done", "panicked"}

\* C24: every ChatEvent the engine accepted results in exactly one Chat
\* response to all operator sessions, whether or not a filter fired, and
\* that response is the last one the event's handling enqueues.
C24_OneChatLast ==
    ChatEnded => /\ ChatFanouts = {Len(ctask.sent)}
                 /\ ctask.sent[Len(ctask.sent)].payload = P_Chat(ctask.perms)

(***************************************************************************)
(* One ChatEvent's futures, on each configuration.                         *)
(***************************************************************************)
SpecHandlers == InitChat /\ [][EvNext]_vars

\* C25: within one ChatEvent, every filter's chat handler has completed
\* before any command's or timer's chat handler starts.
C25_FiltersFirst ==
    (\E j \in 1..Len(hs.cst) : hs.cst[j] # "new")
       => \A i \in 1..Len(hs.fst) : hs.fst[i] = "done"

\* a command's handler is running after three filters' handlers completed
C25_Witness ==
    /\ hs.pc = "cmds"
    /\ Len(hs.fst) = 3 /\ JoinAll(hs.fst)
    /\ \E j \in 1..Len(hs.cst) : hs.cst[j] = "run"

(***************************************************************************)
(* The counters of the cache over time.                                    *)
(***************************************************************************)
InitCounters ==
    /\ InitEngine(ConfigA) /\ InitRoulette /\ InitGateway /\ InitAuth /\ InitEgress
    /\ InitRatelimit /\ InitStream /\ InitDb /\ InitLoad /\ InitOtp /\ InitLate

SpecIncr == InitCounters /\ [][IncrNext]_vars

\* C26: Increment with an expire above 0 sets the key's expiry only when
\* it makes the key: a counter made at time t expires at t + expire,
\* however often it is incremented afterwards.
C26_ExpiryFromCreation ==
    \A k \in IncrKeys :
       (ctr[k].val > 0 /\ IncrExpire(k) > 0) => ctr[k].exp = ctr[k].born + IncrExpire(k)

(***************************************************************************)
(* The egress with channels of a small capacity, the client of session p1  *)
(* ceasing to read.  The loops of the egress and the write pumps are       *)
(* tasks the runtime keeps scheduling.                                     *)
(***************************************************************************)
\* responses enough to fill the session's channel and the queue of ws_in_tx
StallEmits == 2 * StallCap + 1

NextStall ==
    \/ RespSendTo(StallEmits, Broadcast)
    \/ TxRouteTo(StallCap)
    \/ PubSpawn
    \/ \E m \in pub_flying : Publish(m)
    \/ FanoutTo(StallCap)
    \/ \E p \in Peers : WsWrite(p)
    \/ ClientStalls("p1")

SpecStall ==
    /\ InitSessions /\ [][NextStall]_vars
    /\ WF_vars(TxRouteTo(StallCap))
    /\ WF_vars(PubSpawn)
    /\ WF_vars(\E m \in pub_flying : Publish(m))
    /\ WF_vars(FanoutTo(StallCap))
    /\ \A p \in Peers : WF_vars(WsWrite(p))

\* response k was published
Published(k) == \E i \in 1..Len(published) : published[i].k = k
\* response k reached the channel of session p
Reached(k, p) == \E i \in 1..Len(delivered[p]) : delivered[p][i].k = k

\* C27: outbound delivery never blocks for good: whatever a session whose
\* channel is full or whose client stopped reading does, every response
\* sent to Broadcast is eventually published and eventually reaches the
\* other session.
C27_NeverBlocked ==
    \A k \in 1..StallEmits :
       (Len(msg_out) >= k) ~> (Published(k) /\ Reached(k, "p2"))

(***************************************************************************)
(* The background tasks under a fair scheduler: a sleep ends, and the      *)
(* awaits of an iteration (the cache call, the send, the sweep) complete.  *)
(***************************************************************************)
\* the watch channels of a run, and the places of the task list
CancelChans == 1..(MaxInstalls + 1)
TaskSlots == 1..(2 * (MaxInstalls + 1))

\* place i of the task list holds a task
Live(i) == i \in 1..Len(tasks)

\* the next step of the task at place i: a task is at one place of its
\* loop, so at most one of these is enabled
TaskStep(i) == TaskWake(i) \/ TimerSetGet(i) \/ TimerSend(i) \/ LogSweep(i)

SpecTasksFair ==
    /\ Init /\ [][NextTasks]_vars
    /\ \A i \in TaskSlots : WF_vars(Live(i) /\ TaskStep(i))

\* the tasks holding a receiver of channel c
TasksOn(c) == {i \in 1..Len(tasks) : tasks[i].chan = c}

HoldsLock(h) == InCritical(h) /\ ~inst[h].overrun

\* C29: unlock(key) releases only a lock the caller holds: a handler whose
\* lock expired by its TTL does not, by its unlock, release the lock that
\* another handler acquired on the key in the meantime, so the key of a
\* handler holding its lock is set.
C29_OnlyOwnLock == \A h \in Installers : HoldsLock(h) => CONFIG_FILE_LOCK \in locks

(***************************************************************************)
(* Chats of one user, each in its own task, under one Levenshtein filter.  *)
(***************************************************************************)
SpecLev == InitCounters /\ [][LevNext]_vars

\* the task is in the inner section of Levenshtein::run
InInner(t) == vtask[t].pc \in {"setget", "incr", "delete", "reset"}

\* C30: for one user and one Levenshtein filter, the read-modify-write of
\* the per-user state is serialised by the per-user lock: two chat events
\* of the user are never in the inner section at the same time.
C30_InnerSerialised == Cardinality({t \in LevTasks : InInner(t)}) <= 1

(***************************************************************************)
(* Rounds of RussianRoulette whose cache and lock calls all succeed.       *)
(***************************************************************************)
NextRound == RouletteNext({"ok"})

SpecRound == Init /\ [][NextRound]_vars

\* the members of the hash that the running resolver has not read
Unread == {k \in 1..Len(rr_members) :
             \A j \in 1..Len(rtask.heisters) : rtask.heisters[j] # rr_members[k]}

\* C31: every member written to the round's hash is resolved exactly once:
\* while a resolver works on what it read, the hash it is going to delete
\* holds no member it has not read, and a member in the hash always has a
\* resolver to come.
C31_ResolvedOnce ==
    /\ rtask.pc = "heister" => Unread = {}
    /\ rr_members # <<>> => rtask.pc # "idle"

(***************************************************************************)
(* Timers counting chats: the chat pipeline of a user no filter stops,     *)
(* and the Timer tasks, on a Timer of msg_count 1 and one of msg_count 2.  *)
(***************************************************************************)
InitTimers == (\E cfg \in {ConfigA, ConfigT} : InitEngine(cfg)) /\ InitSide

NextTimers ==
    \/ ChatNext({NONE}, QuietOutcomes, QuietResults)
    \/ TaskNext

SpecTimers == InitTimers /\ [][NextTimers]_vars

\* place i holds, before and after the step, one Timer task with a trigger
CountingTimer(i) ==
    /\ Len(tasks') = Len(tasks)
    /\ tasks[i].kind = "Timer" /\ tasks[i].trigger > 0

\* C32: a Timer with msg_count > 0 goes on to emit at a tick only if the
\* chat counter it read has reached msg_count, it emits only after such a
\* read, and the counter is 0 after the read of a tick that emits.
C32_EmitsOnCount ==
    [][\A i \in 1..Len(tasks) :
          CountingTimer(i) =>
             /\ (tasks[i].pc = "work" /\ tasks'[i].pc = "send")
                   => /\ counts[tasks[i].name] >= tasks[i].trigger
                      /\ counts'[tasks[i].name] = 0
             /\ (msg_out' # msg_out /\ tasks'[i] # tasks[i])
                   => tasks[i].pc = "send"
      ]_vars

\* the Timer of msg_count 1 has emitted its Message after a chat was
\* counted, and the counter is back at 0
C32_Witness ==
    /\ \E i \in 1..Len(tasks) :
          tasks[i].kind = "Timer" /\ tasks[i].trigger = 1 /\ tasks[i].n = 1
            /\ tasks[i].pc = "sleep"
    /\ nchats = 1 /\ counts["t1"] = 0
    /\ \E k \in 1..Len(msg_out) : msg_out[k] = Resp(Pubsub, P_Message("hello"))

\* C33: a Timer's chat counter accumulates until an emission: the read of
\* a tick at which the counter is below msg_count leaves the counter as it
\* is.
C33_CountKept ==
    [][\A i \in 1..Len(tasks) :
          (CountingTimer(i) /\ tasks[i].pc = "work" /\ tasks'[i].pc = "sleep")
             => counts' = counts
      ]_vars

\* the ModAction responses with an action stronger than None that the chat
\* task has sent
SentModActions ==
    {k \in 1..Len(ctask.sent) :
        /\ ctask.sent[k].payload.t = "ModAction"
        /\ ActionGt(ctask.sent[k].payload.action, MA_None)}

\* C34: a mod-action record is appended for a filtered chat only when the
\* user's permission is below Mod and the selected action is stronger than
\* None, i.e. exactly when a ModAction with such an action is sent for that
\* chat.
C34_LoggedIffSent ==
    ctask.pc \in {"fanout", "done"} =>
        /\ ctask.logged # <<>> <=> SentModActions # {}
        /\ ctask.logged # <<>> => ctask.perms < MOD

\* C35: when a filter fired for a ChatEvent, no command or timer chat
\* handler runs for it, whatever the user's permission: the event goes from
\* the filters to the fanout, no handler result exists and no Timer count
\* moves.
C35_NoHandlersOnTrip ==
    [][ctask'.tripped =>
          /\ ctask'.pc \in {"fanout", "done"}
          /\ ctask'.res = <<>>
          /\ ctask'.commands = <<>> /\ ctask'.timers = <<>>
          /\ counts' = counts
      ]_vars

\* a chat of a Mod or above tripped a filter and ended, under a
\* configuration with commands and a counting Timer, no ModAction sent
C35_Witness ==
    /\ ctask.pc = "done" /\ ctask.tripped /\ ctask.perms >= MOD
    /\ commands # <<>>
    /\ \E i \in 1..Len(timers) : TimerCounts(timers[i])
    /\ Len(ctask.sent) = 1

(***************************************************************************)
(* Games of RussianRoulette with the active key's TTL.                     *)
(***************************************************************************)
SpecRd == InitCounters /\ [][RdNext]_vars

\* the resolvers that have not finished
LiveResolvers == {i \in 1..Len(rd.res) : rd.res[i].pc # "done"}

\* C36: a round has exactly one resolver and yields one summary: while a
\* resolver is pending or at work no second one is scheduled, every later
\* caller joins, and while callers are in the hash a resolver is there.
C36_OneResolver ==
    /\ Cardinality(LiveResolvers) <= 1
    /\ rd.hash # {} => LiveResolvers # {}

(***************************************************************************)
(* Two redeemers presenting one-time codes that a guild user generated.    *)
(***************************************************************************)
SpecRedeem == InitCodes /\ [][RedeemNext]_vars

\* the links made with code c
LinksOf(c) == {k \in 1..Len(rx.links) : rx.links[k].code = c}

\* C37: a one-time code is redeemed at most once: of the attempts
\* presenting a stored code at most one obtains the guild user id and makes
\* a link; an attempt that did not obtain the id makes no link and, its
\* cache call answered, ends with InvalidCode.
C37_RedeemedOnce ==
    /\ \A c \in OtpCodes : rx.taken[c] <= 1 /\ Cardinality(LinksOf(c)) <= rx.taken[c]
    /\ \A r \in Redeemers : rx.t[r].got = "" => rx.t[r].res # "Ok"
    /\ \A r \in Redeemers :
          (rx.t[r].pc = "done" /\ rx.t[r].got = "")
             => /\ rx.t[r].failed \/ rx.t[r].res = "InvalidCode"
    /\ \A k \in 1..Len(rx.links) : rx.links[k].id = OtpEarlier

\* both redeemers presented the same code: one made the link, the other
\* ended with InvalidCode
C37_Witness ==
    /\ rx.t["r1"].code = rx.t["r2"].code
    /\ rx.t["r1"].res = "Ok" /\ rx.t["r2"].res = "InvalidCode"
    /\ rx.t["r2"].n = 1 /\ Len(rx.links) = 1

\* C38: a successful Login does not consume the stored code: a Login that
\* presents the code stored for its user, from a peer whose counter is not
\* above the ceiling, is answered AuthSuccess and leaves the code stored.
C38_LoginKeepsCode ==
    [][(/\ nauth' # nauth
        /\ last'.msg.t = "Login"
        /\ last'.stored # "" /\ last'.msg.code = last'.stored
        /\ ~Ratelimited(last'.after))
          => /\ last'.resp = A_AuthSuccess(last'.msg.user)
             /\ code' = code
             /\ last'.code_after = last'.stored
      ]_vars

\* two Logins in a row were answered AuthSuccess for the same user, only
\* one code ever having been generated, which is still stored
C38_Witness ==
    /\ last.resp.t = "AuthSuccess" /\ last.prev
    /\ Cardinality({k \in 1..Len(msg_out) : msg_out[k].payload.t = "Ping"}) = 1
    /\ code[last.msg.user] = last.msg.code

\* the calls of Levenshtein::run that are past the inner section
LevDecided == {t \in LevTasks : vtask[t].pc \in {"unlock", "done"} /\ vtask[t].msg # ""}

\* C39: a chat is Filtered exactly when it brings the count of the user's
\* consecutive similar messages above min_times, the counter being cleared
\* then; a message that is not similar to the one before resets the
\* counter: with no call in its inner section the counter is the streak.
C39_TripsOnStreak ==
    /\ \A t \in LevDecided : vtask[t].trip = vtask[t].due
    /\ (\A t \in LevTasks : ~InInner(t)) => lev_count = lev_streak

(***************************************************************************)
(* Installs by one handler, whose file writes can fail.                    *)
(***************************************************************************)
NextSave == InstallNext("h1", Origins, SaveOutcomes)

SpecSave == Init /\ [][NextSave]_vars

\* the handler has sent ConfigSaved for the configuration it holds
SentSaved(h) == inst[h].pc \in {"changed", "unlock"}

\* C40: a ConfigSaved reply implies that the configuration was persisted:
\* once the handler has sent it, the three files hold the configuration of
\* its ConfigDump.
C40_SavedIsOnDisk ==
    SentSaved("h1") =>
        \A f \in {"commands", "filters", "timers"} : disk[f] = inst["h1"].cfg[f]

====
